---- MODULE Spec2Model ----
(***************************************************************************)
(* Model of the modular synthesizer: VoiceManager (playNote / stopNote /   *)
(* cleanupVoice / stopAllNotes), MIDIController (handleMIDIMessage and the *)
(* note / CC handlers), UIController (sliders and knobs), AudioEngine      *)
(* (initialize, the effects chain, the limiter, the master gain) and       *)
(* PresetManager (getCurrentSettings / loadPreset).                        *)
(*                                                                         *)
(* Time is counted in milliseconds.  Every scheduled thing is kept as the  *)
(* time that is left until it happens: a setTimeout handle holds the       *)
(* milliseconds until its callback is due, a scheduled osc.stop(t) and the *)
(* release ramp hold t - currentTime.  Tick lets time pass.                *)
(*                                                                         *)
(* Numbers: a JavaScript number x is the integer x * VolScale (rounded     *)
(* down), so 1.0 is VolScale.  The exceptions: envelope times of ampEnv    *)
(* are whole milliseconds, the octave and the detune are plain integers,   *)
(* decibel values are tenths of a dB, the polyphony compensation factor is *)
(* in units of 1/FactorScale and the gain of the master gain node in units *)
(* of 1/(VolScale*FactorScale).  undefined and NaN are the two values      *)
(* Undefined and NaN.                                                      *)
(***************************************************************************)
EXTENDS Integers, Sequences, FiniteSets, TLC

(* ---------------- bounds of the model ---------------- *)
MaxVoices == 3          \* voices constructed in one behaviour
MaxPolyphony == 120     \* largest voice count handed to the compensation formula alone

(* ---------------- program constants ---------------- *)
SafetyTimeoutMs == 60000
CleanupMarginMs == 50
MidiMaxValue == 127
PercentScale == 100
VolScale == PercentScale * MidiMaxValue
FactorScale == PercentScale * PercentScale   \* unit of the compensation factor

DistortionSamples == 44100             \* entries of the distortion curve
ClipperSamples == 4096                 \* entries of the hard clipper curve
PiScaled == 314159                     \* Math.PI, in 1/100000
LnTenOver200 == 14621                  \* ln(10) / 200, in 1/(100 * VolScale)
LnTwoOver12 == 73358                   \* ln(2) / 12, in 1/(100 * VolScale)
ConcertPitchNote == 69                 \* the MIDI note of 440 Hz
ConcertPitchHz == 440
ExpTerms == 16                         \* terms of the series for Math.exp
MaxDb == 120                           \* largest level in tenths of a dB

NotScheduled == 0 - 1                  \* no stop / no release ramp scheduled
NoTimer == 0 - 1                       \* timer never registered, or cleared
Fired == 0 - 2                         \* timer whose callback has run
NoMidiNote == 0 - 1

(* ---------------- JavaScript values ---------------- *)
\* the number n/d
Num(n, d) == (n * VolScale) \div d

Undefined == 0 - 1000000001            \* a property that is not there
NaN == 0 - 1000000002
Null == 0 - 1000000003

IsNumber(x) == x # Undefined /\ x # NaN

\* x || d
\* a field read without a fallback
KeepMissing(x, d) == x
OrDefault(x, d) == IF x = 0 \/ ~IsNumber(x) THEN d ELSE x

\* x * k and x / k for a whole number k
Times(x, k) == IF IsNumber(x) THEN x * k ELSE NaN

Over(x, k) == IF IsNumber(x) THEN x \div k ELSE NaN

(* ---------------- inputs ---------------- *)
Notes == {"C"}
OctaveOffsets == {0}
MidiNotes == {60}
Velocities == {0, 100}
SliderValues == {80}                   \* master-volume slider positions, 0..100
PolyVolumes == {50, 100}               \* slider positions the formula is tried at
CCValues == {127}                      \* controller values, 0..127
ReleaseKnobValues == {0}               \* release knob positions, in ms
NoteMessages ==                        \* [command, data1, data2] of a note event
  ({144} \X MidiNotes \X Velocities) \cup ({128} \X MidiNotes \X {0})
ModWheelMessages ==                    \* the mod wheel (controller 1) is moved
  {176} \X {1} \X CCValues
VolumeMessages ==                      \* controller 7, and a pitch bend
  ({176} \X {7} \X CCValues) \cup {<<224, 0, 64>>}

KnobSettings ==                        \* knobs turned: [id, value]
  {<<"reverb-mix", Num(40, 1)>>, <<"distortion-drive", Num(20, 1)>>}
ChainCeilings == {0 - 60}              \* limiter-ceiling slider positions
ReverbMessages == {176} \X {91} \X CCValues   \* controller 91 is moved
PresetKnobs ==                         \* knobs turned next to the presets
  {<<"flanger-feedback", 0>>, <<"flanger-feedback", Num(100, 1)>>,
   <<"delay-mix", Num(100, 1)>>, <<"chorus-depth", Num(35, 1)>>,
   <<"osc2-level", 0>>}
ControlNumbers == {1, 7, 71, 72, 73, 74, 91}   \* the controllers of the table
ControlMessages ==                     \* control changes; controller 3 is not in the table
  {176} \X (ControlNumbers \cup {3}) \X {0, MidiMaxValue}
DriveValues ==                         \* positions of the distortion knob, 0..100
  {Num(d, 1) : d \in 0..PercentScale}
SampleAges == {5, 10, 60, 110, 150}    \* ms after note-on at which a held note is looked at
FeedbackValues ==                      \* positions of the delay-feedback knob, in percent
  {Num(p, 1) : p \in {0, 30, 50, 80, 99, PercentScale}}
LevelKnobs ==                          \* the level knobs of the three sources, in percent
  {<<"osc1-level", Num(37, 1)>>, <<"osc2-level", 0>>, <<"osc2-level", Num(100, 1)>>,
   <<"noise-level", Num(20, 1)>>}
MidiVelocities == 1..MidiMaxValue      \* the velocities of a note-on
MinAttackUs == 1000                    \* Math.max(0.001, ...): the floor of the attack, in us
LookaheadValues == {0, 500, 1000, 5000, 10000}   \* limiter-lookahead slider, 0..10 ms, in us
MakeupValues == {0 - MaxDb, 0 - 60, 0, 60, MaxDb}  \* limiter-gain slider, tenths of a dB
SilentKnobs ==                         \* the oscillator levels turned down and up again
  {<<"osc1-level", 0>>, <<"osc2-level", 0>>, <<"osc1-level", Num(100, 1)>>}
MonolithNotes == {60, 62}              \* MIDI notes played on the monolithic build
MessageCommands ==                     \* status bytes: note-off, note-on (channels 1 and
  {128, 144, 153, 176, 224}            \* 10), control change, pitch bend
MessageData == {7, 60}                 \* first data byte: a note or controller number
LifecycleNotes == {<<144, 60, 100>>, <<128, 60, 0>>}   \* one key, pressed and released
ControlValues == {0, 64, MidiMaxValue}  \* values every controller number is tried at
LifecycleControls ==                    \* each controller of the table, and one outside it
  {176} \X (ControlNumbers \cup {3}) \X {64}
EditKnobs ==                           \* voice parameters edited while notes sound
  {<<"release", 1000>>, <<"filter-cutoff", Num(500, 1)>>}
EditMessages ==                        \* controllers 72 (release) and 73 (attack)
  {176} \X {72, 73} \X CCValues
MaxDisconnectCalls == 5                \* ampGain, filter and up to three gain nodes
BuildKnobs ==                          \* knobs that change how a voice is built
  {<<"filter-env-amount", Num(1000, 1)>>, <<"filter-env-amount", 0>>,
   <<"lfo-amp-depth", Num(50, 1)>>}
Octaves == 1..7                        \* positions of the octave knob
KeyOffsets == 0..2                     \* data-octave-offset of the 25 keys
AllMidiNotes == 0..MidiMaxValue
CeilingValues == (0 - MaxDb)..MaxDb    \* limiter-ceiling slider positions, tenths of a dB

\* a preset as initializePresets() writes it: osc1 / osc2 = [wave, detune,
\* level], filter = [type, cutoff, resonance, envAmount, attack, decay],
\* ampEnv = [attack, decay, sustain, release], lfo = [wave, rate, pitchDepth,
\* filterDepth, ampDepth], effects = [delayTime, delayFeedback, delayMix,
\* reverbMix] and, in most presets, [distortionDrive, chorusRate, chorusDepth,
\* flangerRate, flangerDepth, flangerFeedbackAmount] after them
Preset(name, o1, o2, noise, oct, f, env, l, fx, volume) ==
  LET Optional(i) == IF i <= Len(fx) THEN fx[i] ELSE Undefined
  IN
  [name |-> name,
   osc1 |-> [wave |-> o1[1], detune |-> o1[2], level |-> o1[3]],
   osc2 |-> [wave |-> o2[1], detune |-> o2[2], level |-> o2[3]],
   noiseLevel |-> noise,
   octave |-> oct,
   filter |-> [type |-> f[1], cutoff |-> f[2], resonance |-> f[3],
               envAmount |-> f[4], attack |-> f[5], decay |-> f[6]],
   ampEnv |-> [attack |-> env[1], decay |-> env[2], sustain |-> env[3],
               release |-> env[4]],
   lfo |-> [wave |-> l[1], rate |-> l[2], pitchDepth |-> l[3],
            filterDepth |-> l[4], ampDepth |-> l[5]],
   effects |-> [delayTime |-> fx[1], delayFeedback |-> fx[2],
                delayMix |-> fx[3], reverbMix |-> fx[4],
                distortionDrive |-> Optional(5), chorusRate |-> Optional(6),
                chorusDepth |-> Optional(7), flangerRate |-> Optional(8),
                flangerDepth |-> Optional(9), flangerFeedbackAmount |-> Optional(10)],
   masterVolume |-> volume,
   maxVolume |-> Undefined]

\* the built-in presets, bass, lead, pad and fx
BuiltInPresets ==
  {Preset("Deep Sub Bass", <<"sine", 0, Num(100, 1)>>, <<"sine", 0 - 12, Num(50, 1)>>,
          0, 3,
          <<"lowpass", Num(200, 1), Num(1, 1), 0, Num(1, 100), Num(1, 10)>>,
          <<10, 300, Num(7, 10), 500>>,
          <<"sine", Num(5, 1), 0, 0, 0>>,
          <<Num(3, 10), Num(30, 1), 0, Num(10, 1)>>,
          Num(60, 1)),
   Preset("Funky Bass", <<"sawtooth", 0, Num(100, 1)>>, <<"square", 7, Num(40, 1)>>,
          Num(5, 1), 3,
          <<"lowpass", Num(800, 1), Num(8, 1), Num(1200, 1), Num(1, 100), Num(15, 100)>>,
          <<10, 200, Num(3, 10), 200>>,
          <<"sine", Num(6, 1), 0, 0, 0>>,
          <<Num(3, 10), Num(20, 1), 0, Num(5, 1)>>,
          Num(55, 1)),
   Preset("Acid Bass", <<"sawtooth", 0, Num(100, 1)>>, <<"square", 0, Num(70, 1)>>,
          0, 3,
          <<"lowpass", Num(400, 1), Num(20, 1), Num(3000, 1), Num(1, 100), Num(4, 10)>>,
          <<10, 300, Num(5, 10), 200>>,
          <<"sine", Num(8, 1), 0, Num(1500, 1), 0>>,
          <<Num(3, 10), Num(25, 1), Num(15, 1), Num(20, 1)>>,
          Num(50, 1)),
   Preset("Wobble Bass", <<"sawtooth", 0, Num(100, 1)>>, <<"square", 0 - 7, Num(80, 1)>>,
          0, 3,
          <<"lowpass", Num(1500, 1), Num(10, 1), 0, Num(1, 100), Num(1, 10)>>,
          <<10, 100, Num(9, 10), 300>>,
          <<"square", Num(4, 1), 0, Num(2500, 1), 0>>,
          <<Num(3, 10), Num(30, 1), 0, Num(15, 1)>>,
          Num(50, 1)),
   Preset("Punch Bass", <<"triangle", 0, Num(100, 1)>>, <<"sine", 0 - 12, Num(60, 1)>>,
          Num(10, 1), 3,
          <<"lowpass", Num(600, 1), Num(3, 1), Num(800, 1), Num(1, 1000), Num(1, 10)>>,
          <<1, 150, Num(6, 10), 250>>,
          <<"sine", Num(5, 1), 0, 0, 0>>,
          <<Num(3, 10), Num(20, 1), 0, Num(5, 1), 0, Num(5, 10), 0, Num(3, 10), 0, Num(50, 1)>>,
          Num(60, 1)),
   Preset("Reese Bass", <<"sawtooth", 0 - 7, Num(100, 1)>>, <<"sawtooth", 7, Num(100, 1)>>,
          0, 2,
          <<"lowpass", Num(350, 1), Num(4, 1), Num(200, 1), Num(2, 100), Num(2, 10)>>,
          <<20, 300, Num(9, 10), 400>>,
          <<"sine", Num(2, 10), Num(3, 1), Num(100, 1), 0>>,
          <<Num(3, 10), Num(25, 1), 0, Num(20, 1), Num(15, 1), Num(3, 10), Num(30, 1), Num(3, 10), 0, Num(50, 1)>>,
          Num(55, 1)),
   Preset("Electro Bass", <<"square", 0, Num(100, 1)>>, <<"sawtooth", 0 - 12, Num(60, 1)>>,
          Num(3, 1), 3,
          <<"lowpass", Num(500, 1), Num(12, 1), Num(1500, 1), Num(1, 1000), Num(8, 100)>>,
          <<1, 100, Num(2, 10), 150>>,
          <<"sine", Num(12, 1), 0, Num(800, 1), 0>>,
          <<Num(25, 100), Num(30, 1), Num(10, 1), Num(15, 1), Num(20, 1), Num(5, 10), 0, Num(3, 10), 0, Num(50, 1)>>,
          Num(55, 1)),
   Preset("Growl Bass", <<"sawtooth", 0, Num(100, 1)>>, <<"square", 0 - 5, Num(90, 1)>>,
          Num(8, 1), 3,
          <<"lowpass", Num(600, 1), Num(18, 1), Num(2500, 1), Num(2, 100), Num(25, 100)>>,
          <<10, 200, Num(7, 10), 300>>,
          <<"square", Num(6, 1), Num(10, 1), Num(2000, 1), Num(15, 1)>>,
          <<Num(3, 10), Num(35, 1), Num(5, 1), Num(10, 1), Num(35, 1), Num(5, 10), 0, Num(3, 10), 0, Num(50, 1)>>,
          Num(50, 1)),
   Preset("Slap Bass", <<"triangle", 0, Num(100, 1)>>, <<"sine", 0, Num(40, 1)>>,
          Num(20, 1), 3,
          <<"lowpass", Num(1200, 1), Num(5, 1), Num(2000, 1), Num(1, 1000), Num(6, 100)>>,
          <<1, 80, Num(4, 10), 200>>,
          <<"sine", Num(5, 1), 0, 0, 0>>,
          <<Num(3, 10), Num(20, 1), 0, Num(5, 1), Num(10, 1), Num(5, 10), 0, Num(3, 10), 0, Num(50, 1)>>,
          Num(58, 1)),
   Preset("TB-303 Bass", <<"sawtooth", 0, Num(100, 1)>>, <<"square", 0, Num(50, 1)>>,
          0, 3,
          <<"lowpass", Num(300, 1), Num(22, 1), Num(3500, 1), Num(1, 1000), Num(5, 10)>>,
          <<1, 400, Num(4, 10), 200>>,
          <<"sine", Num(5, 1), 0, 0, 0>>,
          <<Num(3, 10), Num(30, 1), Num(15, 1), Num(25, 1), Num(8, 1), Num(5, 10), 0, Num(3, 10), 0, Num(50, 1)>>,
          Num(52, 1)),
   Preset("Deep House Bass", <<"sine", 0, Num(100, 1)>>, <<"triangle", 0, Num(50, 1)>>,
          0, 2,
          <<"lowpass", Num(180, 1), Num(2, 1), Num(100, 1), Num(5, 100), Num(3, 10)>>,
          <<50, 400, Num(7, 10), 600>>,
          <<"sine", Num(5, 10), 0, Num(50, 1), 0>>,
          <<Num(5, 10), Num(35, 1), Num(10, 1), Num(30, 1), Num(5, 1), Num(4, 10), Num(20, 1), Num(3, 10), 0, Num(50, 1)>>,
          Num(60, 1)),
   Preset("Techno Bass", <<"sawtooth", 0, Num(100, 1)>>, <<"square", 0, Num(70, 1)>>,
          Num(5, 1), 3,
          <<"lowpass", Num(700, 1), Num(8, 1), Num(1000, 1), Num(1, 1000), Num(12, 100)>>,
          <<1, 150, Num(5, 10), 200>>,
          <<"sine", Num(4, 1), 0, Num(600, 1), 0>>,
          <<Num(375, 1000), Num(40, 1), Num(20, 1), Num(15, 1), Num(25, 1), Num(5, 10), 0, Num(3, 10), 0, Num(50, 1)>>,
          Num(53, 1)),
   Preset("Dubstep Bass", <<"sawtooth", 0 - 5, Num(100, 1)>>, <<"square", 5, Num(100, 1)>>,
          Num(10, 1), 3,
          <<"lowpass", Num(800, 1), Num(15, 1), 0, Num(1, 100), Num(1, 10)>>,
          <<10, 100, Num(95, 100), 300>>,
          <<"square", Num(3, 1), 0, Num(3000, 1), 0>>,
          <<Num(3, 10), Num(50, 1), Num(15, 1), Num(30, 1), Num(45, 1), Num(5, 10), 0, Num(3, 10), 0, Num(50, 1)>>,
          Num(48, 1)),
   Preset("Smooth Bass", <<"triangle", 0, Num(100, 1)>>, <<"sine", 0 - 12, Num(80, 1)>>,
          0, 3,
          <<"lowpass", Num(400, 1), Num(15, 10), Num(300, 1), Num(8, 100), Num(2, 10)>>,
          <<80, 250, Num(8, 10), 500>>,
          <<"sine", Num(3, 1), Num(5, 1), Num(150, 1), 0>>,
          <<Num(4, 10), Num(25, 1), Num(5, 1), Num(25, 1), 0, Num(6, 10), Num(35, 1), Num(3, 10), 0, Num(50, 1)>>,
          Num(55, 1)),
   Preset("Distorted Sub", <<"sine", 0, Num(100, 1)>>, <<"sawtooth", 0, Num(60, 1)>>,
          Num(5, 1), 2,
          <<"lowpass", Num(250, 1), Num(3, 1), 0, Num(1, 100), Num(1, 10)>>,
          <<10, 200, Num(9, 10), 400>>,
          <<"sine", Num(5, 1), 0, 0, 0>>,
          <<Num(3, 10), Num(25, 1), 0, Num(10, 1), Num(40, 1), Num(5, 10), 0, Num(3, 10), 0, Num(50, 1)>>,
          Num(58, 1)),
   Preset("Rubber Bass", <<"sawtooth", 0, Num(100, 1)>>, <<"triangle", 12, Num(70, 1)>>,
          0, 3,
          <<"bandpass", Num(600, 1), Num(10, 1), Num(1800, 1), Num(1, 100), Num(3, 10)>>,
          <<10, 250, Num(6, 10), 300>>,
          <<"triangle", Num(8, 1), Num(20, 1), Num(1200, 1), 0>>,
          <<Num(3, 10), Num(30, 1), Num(10, 1), Num(20, 1), Num(15, 1), Num(5, 10), 0, Num(3, 10), 0, Num(50, 1)>>,
          Num(52, 1)),
   Preset("Filtered Bass", <<"square", 0, Num(100, 1)>>, <<"sawtooth", 5, Num(80, 1)>>,
          Num(3, 1), 3,
          <<"highpass", Num(150, 1), Num(8, 1), Num(800, 1), Num(2, 100), Num(2, 10)>>,
          <<20, 200, Num(7, 10), 350>>,
          <<"sine", Num(6, 1), 0, Num(500, 1), 0>>,
          <<Num(3, 10), Num(35, 1), Num(15, 1), Num(25, 1), Num(18, 1), Num(5, 10), 0, Num(3, 10), 0, Num(50, 1)>>,
          Num(54, 1)),
   Preset("Vintage Bass", <<"sawtooth", 0, Num(100, 1)>>, <<"square", 0 - 3, Num(60, 1)>>,
          Num(8, 1), 3,
          <<"lowpass", Num(550, 1), Num(6, 1), Num(900, 1), Num(1, 100), Num(18, 100)>>,
          <<10, 200, Num(65, 100), 300>>,
          <<"sine", Num(5, 1), 0, 0, 0>>,
          <<Num(35, 100), Num(28, 1), Num(8, 1), Num(18, 1), Num(12, 1), Num(7, 10), Num(25, 1), Num(3, 10), 0, Num(50, 1)>>,
          Num(56, 1)),
   Preset("Massive Bass", <<"sawtooth", 0 - 10, Num(100, 1)>>, <<"sawtooth", 10, Num(100, 1)>>,
          Num(5, 1), 2,
          <<"lowpass", Num(400, 1), Num(5, 1), Num(600, 1), Num(3, 100), Num(3, 10)>>,
          <<30, 350, Num(85, 100), 500>>,
          <<"sine", Num(4, 10), Num(8, 1), Num(200, 1), Num(5, 1)>>,
          <<Num(4, 10), Num(30, 1), Num(12, 1), Num(35, 1), Num(20, 1), Num(3, 10), Num(40, 1), Num(3, 10), 0, Num(50, 1)>>,
          Num(52, 1)),
   Preset("Classic Lead", <<"sawtooth", 0, Num(100, 1)>>, <<"sawtooth", 7, Num(70, 1)>>,
          0, 5,
          <<"lowpass", Num(3000, 1), Num(5, 1), Num(2000, 1), Num(5, 100), Num(3, 10)>>,
          <<10, 200, Num(7, 10), 400>>,
          <<"sine", Num(5, 1), Num(20, 1), 0, 0>>,
          <<Num(375, 1000), Num(35, 1), Num(25, 1), Num(30, 1)>>,
          Num(50, 1)),
   Preset("Square Lead", <<"square", 0, Num(100, 1)>>, <<"square", 0 - 5, Num(80, 1)>>,
          0, 5,
          <<"lowpass", Num(2500, 1), Num(3, 1), Num(1500, 1), Num(8, 100), Num(25, 100)>>,
          <<20, 150, Num(8, 10), 300>>,
          <<"sine", Num(6, 1), Num(15, 1), 0, 0>>,
          <<Num(25, 100), Num(40, 1), Num(20, 1), Num(25, 1)>>,
          Num(50, 1)),
   Preset("Synth Brass", <<"sawtooth", 0, Num(100, 1)>>, <<"sawtooth", 0 - 7, Num(90, 1)>>,
          Num(5, 1), 4,
          <<"lowpass", Num(2000, 1), Num(6, 1), Num(1000, 1), Num(2, 10), Num(3, 10)>>,
          <<150, 200, Num(8, 10), 500>>,
          <<"sine", Num(4, 1), Num(10, 1), Num(300, 1), Num(5, 1)>>,
          <<Num(3, 10), Num(25, 1), Num(15, 1), Num(35, 1)>>,
          Num(55, 1)),
   Preset("Pluck Lead", <<"sawtooth", 0, Num(100, 1)>>, <<"triangle", 12, Num(50, 1)>>,
          Num(8, 1), 5,
          <<"lowpass", Num(4000, 1), Num(2, 1), Num(3000, 1), Num(1, 1000), Num(15, 100)>>,
          <<1, 200, Num(3, 10), 200>>,
          <<"sine", Num(5, 1), 0, 0, 0>>,
          <<Num(5, 10), Num(45, 1), Num(35, 1), Num(40, 1)>>,
          Num(55, 1)),
   Preset("Distorted Lead", <<"square", 0, Num(100, 1)>>, <<"sawtooth", 14, Num(100, 1)>>,
          Num(3, 1), 5,
          <<"lowpass", Num(3500, 1), Num(15, 1), Num(2500, 1), Num(2, 100), Num(2, 10)>>,
          <<10, 100, Num(9, 10), 300>>,
          <<"sine", Num(7, 1), Num(25, 1), Num(500, 1), 0>>,
          <<Num(3, 10), Num(50, 1), Num(30, 1), Num(25, 1), 0, Num(5, 10), 0, Num(3, 10), 0, Num(50, 1)>>,
          Num(45, 1)),
   Preset("Supersaw Lead", <<"sawtooth", 0 - 12, Num(90, 1)>>, <<"sawtooth", 12, Num(90, 1)>>,
          0, 5,
          <<"lowpass", Num(3500, 1), Num(4, 1), Num(1800, 1), Num(6, 100), Num(25, 100)>>,
          <<20, 200, Num(75, 100), 400>>,
          <<"sine", Num(55, 10), Num(18, 1), Num(400, 1), 0>>,
          <<Num(4, 10), Num(38, 1), Num(28, 1), Num(35, 1), 0, Num(8, 10), Num(45, 1), Num(3, 10), 0, Num(50, 1)>>,
          Num(48, 1)),
   Preset("Trance Lead", <<"sawtooth", 0, Num(100, 1)>>, <<"square", 7, Num(70, 1)>>,
          0, 5,
          <<"lowpass", Num(4000, 1), Num(8, 1), Num(2500, 1), Num(3, 100), Num(25, 100)>>,
          <<10, 150, Num(8, 10), 350>>,
          <<"sine", Num(6, 1), Num(22, 1), Num(600, 1), 0>>,
          <<Num(375, 1000), Num(42, 1), Num(30, 1), Num(40, 1), Num(8, 1), Num(5, 10), 0, Num(3, 10), 0, Num(50, 1)>>,
          Num(50, 1)),
   Preset("Screamer Lead", <<"sawtooth", 0, Num(100, 1)>>, <<"square", 5, Num(90, 1)>>,
          Num(5, 1), 5,
          <<"lowpass", Num(5000, 1), Num(18, 1), Num(3000, 1), Num(2, 100), Num(2, 10)>>,
          <<5, 100, Num(9, 10), 250>>,
          <<"sine", Num(75, 10), Num(30, 1), Num(800, 1), 0>>,
          <<Num(3, 10), Num(45, 1), Num(25, 1), Num(30, 1), Num(35, 1), Num(5, 10), 0, Num(3, 10), 0, Num(50, 1)>>,
          Num(47, 1)),
   Preset("Soft Lead", <<"triangle", 0, Num(100, 1)>>, <<"sine", 12, Num(60, 1)>>,
          0, 5,
          <<"lowpass", Num(2000, 1), Num(2, 1), Num(800, 1), Num(12, 100), Num(3, 10)>>,
          <<80, 250, Num(7, 10), 500>>,
          <<"sine", Num(45, 10), Num(12, 1), Num(200, 1), 0>>,
          <<Num(45, 100), Num(35, 1), Num(22, 1), Num(45, 1), 0, Num(6, 10), Num(38, 1), Num(3, 10), 0, Num(50, 1)>>,
          Num(52, 1)),
   Preset("Techno Stab", <<"sawtooth", 0, Num(100, 1)>>, <<"square", 0, Num(80, 1)>>,
          Num(8, 1), 4,
          <<"lowpass", Num(3000, 1), Num(12, 1), Num(2200, 1), Num(1, 1000), Num(12, 100)>>,
          <<1, 150, Num(4, 10), 200>>,
          <<"sine", Num(5, 1), 0, 0, 0>>,
          <<Num(25, 100), Num(40, 1), Num(20, 1), Num(25, 1), Num(22, 1), Num(5, 10), 0, Num(3, 10), 0, Num(50, 1)>>,
          Num(53, 1)),
   Preset("Sync Lead", <<"sawtooth", 0, Num(100, 1)>>, <<"triangle", 24, Num(70, 1)>>,
          0, 5,
          <<"lowpass", Num(4500, 1), Num(10, 1), Num(2800, 1), Num(4, 100), Num(22, 100)>>,
          <<10, 180, Num(75, 100), 350>>,
          <<"triangle", Num(8, 1), Num(40, 1), Num(1000, 1), 0>>,
          <<Num(35, 100), Num(48, 1), Num(30, 1), Num(32, 1), Num(15, 1), Num(5, 10), 0, Num(3, 10), 0, Num(50, 1)>>,
          Num(49, 1)),
   Preset("Arpeggio Lead", <<"square", 0, Num(100, 1)>>, <<"triangle", 12, Num(60, 1)>>,
          Num(5, 1), 5,
          <<"lowpass", Num(3800, 1), Num(6, 1), Num(2000, 1), Num(1, 1000), Num(1, 10)>>,
          <<1, 120, Num(5, 10), 180>>,
          <<"sine", Num(5, 1), 0, 0, 0>>,
          <<Num(333, 1000), Num(50, 1), Num(40, 1), Num(35, 1), 0, Num(5, 10), 0, Num(3, 10), 0, Num(50, 1)>>,
          Num(51, 1)),
   Preset("Flanger Lead", <<"sawtooth", 0, Num(100, 1)>>, <<"sawtooth", 7, Num(80, 1)>>,
          0, 5,
          <<"lowpass", Num(3200, 1), Num(5, 1), Num(1600, 1), Num(5, 100), Num(28, 100)>>,
          <<20, 200, Num(8, 10), 380>>,
          <<"sine", Num(55, 10), Num(18, 1), 0, 0>>,
          <<Num(375, 1000), Num(38, 1), Num(25, 1), Num(32, 1), 0, Num(5, 10), 0, Num(8, 10), Num(65, 1), Num(70, 1)>>,
          Num(50, 1)),
   Preset("Acid Lead", <<"sawtooth", 0, Num(100, 1)>>, <<"square", 0 - 7, Num(70, 1)>>,
          0, 5,
          <<"lowpass", Num(1200, 1), Num(20, 1), Num(4000, 1), Num(1, 100), Num(35, 100)>>,
          <<10, 250, Num(6, 10), 300>>,
          <<"sine", Num(9, 1), 0, Num(2000, 1), 0>>,
          <<Num(3, 10), Num(42, 1), Num(22, 1), Num(28, 1), Num(18, 1), Num(5, 10), 0, Num(3, 10), 0, Num(50, 1)>>,
          Num(50, 1)),
   Preset("Bright Lead", <<"sawtooth", 0, Num(100, 1)>>, <<"triangle", 7, Num(50, 1)>>,
          Num(10, 1), 6,
          <<"lowpass", Num(6000, 1), Num(3, 1), Num(2500, 1), Num(2, 100), Num(2, 10)>>,
          <<10, 150, Num(7, 10), 300>>,
          <<"sine", Num(6, 1), Num(20, 1), Num(400, 1), 0>>,
          <<Num(4, 10), Num(40, 1), Num(28, 1), Num(38, 1), Num(5, 1), Num(7, 10), Num(35, 1), Num(3, 10), 0, Num(50, 1)>>,
          Num(48, 1)),
   Preset("Gritty Lead", <<"square", 0, Num(100, 1)>>, <<"sawtooth", 10, Num(95, 1)>>,
          Num(12, 1), 5,
          <<"lowpass", Num(2800, 1), Num(14, 1), Num(2200, 1), Num(2, 100), Num(18, 100)>>,
          <<10, 120, Num(85, 100), 280>>,
          <<"sine", Num(65, 10), Num(22, 1), Num(700, 1), 0>>,
          <<Num(3, 10), Num(45, 1), Num(25, 1), Num(25, 1), Num(42, 1), Num(5, 10), 0, Num(3, 10), 0, Num(50, 1)>>,
          Num(46, 1)),
   Preset("Chorus Lead", <<"sawtooth", 0 - 5, Num(85, 1)>>, <<"sawtooth", 5, Num(85, 1)>>,
          0, 5,
          <<"lowpass", Num(3200, 1), Num(4, 1), Num(1500, 1), Num(5, 100), Num(25, 100)>>,
          <<20, 200, Num(75, 100), 400>>,
          <<"sine", Num(5, 1), Num(15, 1), Num(300, 1), 0>>,
          <<Num(375, 1000), Num(35, 1), Num(25, 1), Num(35, 1), 0, Num(12, 10), Num(55, 1), Num(3, 10), 0, Num(50, 1)>>,
          Num(50, 1)),
   Preset("Monophonic Lead", <<"sawtooth", 0, Num(100, 1)>>, <<"square", 0, Num(60, 1)>>,
          Num(3, 1), 5,
          <<"lowpass", Num(2800, 1), Num(7, 1), Num(1800, 1), Num(4, 100), Num(22, 100)>>,
          <<20, 180, Num(8, 10), 320>>,
          <<"sine", Num(55, 10), Num(18, 1), Num(500, 1), 0>>,
          <<Num(35, 100), Num(38, 1), Num(22, 1), Num(30, 1), Num(10, 1), Num(5, 10), 0, Num(3, 10), 0, Num(50, 1)>>,
          Num(51, 1)),
   Preset("Detune Lead", <<"sawtooth", 0 - 15, Num(90, 1)>>, <<"sawtooth", 15, Num(90, 1)>>,
          0, 5,
          <<"lowpass", Num(3600, 1), Num(5, 1), Num(2000, 1), Num(5, 100), Num(28, 100)>>,
          <<20, 200, Num(78, 100), 400>>,
          <<"sine", Num(5, 1), Num(20, 1), Num(450, 1), 0>>,
          <<Num(4, 10), Num(40, 1), Num(30, 1), Num(38, 1), 0, Num(6, 10), Num(42, 1), Num(3, 10), 0, Num(50, 1)>>,
          Num(49, 1)),
   Preset("Warm Pad", <<"sawtooth", 0, Num(80, 1)>>, <<"sawtooth", 7, Num(80, 1)>>,
          0, 4,
          <<"lowpass", Num(1500, 1), Num(1, 1), Num(500, 1), Num(8, 10), Num(5, 10)>>,
          <<800, 300, Num(7, 10), 1200>>,
          <<"sine", Num(5, 10), Num(8, 1), Num(300, 1), Num(10, 1)>>,
          <<Num(5, 10), Num(40, 1), Num(20, 1), Num(60, 1)>>,
          Num(40, 1)),
   Preset("Strings Pad", <<"sawtooth", 0 - 7, Num(70, 1)>>, <<"sawtooth", 7, Num(70, 1)>>,
          Num(2, 1), 4,
          <<"lowpass", Num(2000, 1), Num(2, 1), Num(800, 1), Num(1, 1), Num(8, 10)>>,
          <<1000, 500, Num(8, 10), 1500>>,
          <<"sine", Num(3, 10), Num(5, 1), Num(200, 1), Num(8, 1)>>,
          <<Num(4, 10), Num(35, 1), Num(15, 1), Num(70, 1)>>,
          Num(45, 1)),
   Preset("Choir Pad", <<"sine", 0, Num(90, 1)>>, <<"triangle", 12, Num(60, 1)>>,
          Num(3, 1), 5,
          <<"lowpass", Num(2500, 1), Num(15, 10), Num(600, 1), Num(12, 10), Num(6, 10)>>,
          <<1200, 400, Num(75, 100), 1800>>,
          <<"sine", Num(4, 10), Num(12, 1), Num(400, 1), Num(12, 1)>>,
          <<Num(6, 10), Num(45, 1), Num(25, 1), Num(75, 1)>>,
          Num(40, 1)),
   Preset("Dark Pad", <<"triangle", 0, Num(100, 1)>>, <<"sine", 0 - 12, Num(70, 1)>>,
          Num(5, 1), 3,
          <<"lowpass", Num(800, 1), Num(3, 1), Num(200, 1), Num(15, 10), Num(1, 1)>>,
          <<1500, 600, Num(7, 10), 2000>>,
          <<"triangle", Num(2, 10), Num(3, 1), Num(150, 1), Num(15, 1)>>,
          <<Num(7, 10), Num(50, 1), Num(30, 1), Num(80, 1)>>,
          Num(45, 1)),
   Preset("Shimmer Pad", <<"sine", 0, Num(80, 1)>>, <<"triangle", 24, Num(60, 1)>>,
          Num(8, 1), 5,
          <<"bandpass", Num(3000, 1), Num(5, 1), Num(1000, 1), Num(9, 10), Num(7, 10)>>,
          <<900, 500, Num(6, 10), 1500>>,
          <<"sine", Num(2, 1), Num(20, 1), Num(800, 1), Num(20, 1)>>,
          <<Num(5, 10), Num(60, 1), Num(40, 1), Num(85, 1), 0, Num(5, 10), 0, Num(3, 10), 0, Num(50, 1)>>,
          Num(40, 1)),
   Preset("Lush Pad", <<"sawtooth", 0 - 10, Num(75, 1)>>, <<"sawtooth", 10, Num(75, 1)>>,
          Num(3, 1), 4,
          <<"lowpass", Num(1800, 1), Num(2, 1), Num(600, 1), Num(9, 10), Num(6, 10)>>,
          <<900, 400, Num(75, 100), 1400>>,
          <<"sine", Num(6, 10), Num(10, 1), Num(350, 1), Num(12, 1)>>,
          <<Num(55, 100), Num(42, 1), Num(22, 1), Num(68, 1), 0, Num(4, 10), Num(50, 1), Num(3, 10), 0, Num(50, 1)>>,
          Num(42, 1)),
   Preset("Ambient Pad", <<"sine", 0, Num(85, 1)>>, <<"triangle", 19, Num(70, 1)>>,
          Num(10, 1), 4,
          <<"lowpass", Num(2200, 1), Num(18, 10), Num(700, 1), Num(13, 10), Num(8, 10)>>,
          <<1300, 500, Num(72, 100), 1900>>,
          <<"sine", Num(35, 100), Num(8, 1), Num(300, 1), Num(15, 1)>>,
          <<Num(65, 100), Num(48, 1), Num(32, 1), Num(78, 1), 0, Num(5, 10), 0, Num(3, 10), 0, Num(50, 1)>>,
          Num(41, 1)),
   Preset("Analog Pad", <<"sawtooth", 0, Num(80, 1)>>, <<"square", 5, Num(70, 1)>>,
          Num(6, 1), 4,
          <<"lowpass", Num(1600, 1), Num(25, 10), Num(550, 1), Num(85, 100), Num(55, 100)>>,
          <<850, 350, Num(75, 100), 1300>>,
          <<"triangle", Num(45, 100), Num(6, 1), Num(250, 1), Num(10, 1)>>,
          <<Num(48, 100), Num(38, 1), Num(18, 1), Num(62, 1), Num(8, 1), Num(6, 10), Num(30, 1), Num(3, 10), 0, Num(50, 1)>>,
          Num(43, 1)),
   Preset("Evolving Pad", <<"sawtooth", 0 - 8, Num(75, 1)>>, <<"triangle", 8, Num(75, 1)>>,
          Num(5, 1), 4,
          <<"lowpass", Num(1900, 1), Num(3, 1), Num(900, 1), Num(11, 10), Num(9, 10)>>,
          <<1100, 600, Num(7, 10), 1700>>,
          <<"sine", Num(25, 100), Num(12, 1), Num(600, 1), Num(18, 1)>>,
          <<Num(6, 10), Num(50, 1), Num(28, 1), Num(72, 1), 0, Num(5, 10), 0, Num(2, 10), Num(35, 1), Num(60, 1)>>,
          Num(41, 1)),
   Preset("Crystal Pad", <<"sine", 0, Num(90, 1)>>, <<"triangle", 12, Num(65, 1)>>,
          Num(12, 1), 5,
          <<"highpass", Num(400, 1), Num(4, 1), Num(800, 1), Num(1, 1), Num(7, 10)>>,
          <<1000, 450, Num(68, 100), 1600>>,
          <<"sine", Num(15, 10), Num(18, 1), Num(600, 1), Num(22, 1)>>,
          <<Num(52, 100), Num(55, 1), Num(38, 1), Num(82, 1), 0, Num(8, 10), Num(45, 1), Num(3, 10), 0, Num(50, 1)>>,
          Num(39, 1)),
   Preset("Sweep Pad", <<"sawtooth", 0, Num(85, 1)>>, <<"square", 7, Num(75, 1)>>,
          Num(4, 1), 4,
          <<"lowpass", Num(1200, 1), Num(6, 1), Num(1500, 1), Num(14, 10), Num(12, 10)>>,
          <<1000, 500, Num(73, 100), 1500>>,
          <<"triangle", Num(3, 10), Num(5, 1), Num(800, 1), 0>>,
          <<Num(58, 100), Num(45, 1), Num(25, 1), Num(70, 1), 0, Num(5, 10), 0, Num(3, 10), 0, Num(50, 1)>>,
          Num(42, 1)),
   Preset("Dream Pad", <<"sine", 0, Num(80, 1)>>, <<"sine", 7, Num(80, 1)>>,
          Num(8, 1), 5,
          <<"lowpass", Num(2800, 1), Num(2, 1), Num(650, 1), Num(12, 10), Num(7, 10)>>,
          <<1200, 500, Num(7, 10), 1800>>,
          <<"sine", Num(5, 10), Num(15, 1), Num(400, 1), Num(15, 1)>>,
          <<Num(62, 100), Num(52, 1), Num(35, 1), Num(80, 1), 0, Num(7, 10), Num(50, 1), Num(3, 10), 0, Num(50, 1)>>,
          Num(40, 1)),
   Preset("Ethereal Pad", <<"triangle", 0, Num(85, 1)>>, <<"sine", 24, Num(70, 1)>>,
          Num(15, 1), 5,
          <<"bandpass", Num(2500, 1), Num(6, 1), Num(1100, 1), Num(1, 1), Num(8, 10)>>,
          <<1000, 550, Num(65, 100), 1700>>,
          <<"sine", Num(18, 10), Num(22, 1), Num(900, 1), Num(25, 1)>>,
          <<Num(55, 100), Num(58, 1), Num(42, 1), Num(88, 1), 0, Num(5, 10), 0, Num(5, 10), Num(48, 1), Num(65, 1)>>,
          Num(38, 1)),
   Preset("Soft Pad", <<"triangle", 0, Num(90, 1)>>, <<"sine", 12, Num(75, 1)>>,
          Num(2, 1), 4,
          <<"lowpass", Num(1700, 1), Num(15, 10), Num(450, 1), Num(95, 100), Num(5, 10)>>,
          <<950, 350, Num(78, 100), 1400>>,
          <<"sine", Num(4, 10), Num(6, 1), Num(200, 1), Num(8, 1)>>,
          <<Num(5, 10), Num(40, 1), Num(20, 1), Num(65, 1), 0, Num(6, 10), Num(35, 1), Num(3, 10), 0, Num(50, 1)>>,
          Num(43, 1)),
   Preset("Digital Pad", <<"square", 0, Num(80, 1)>>, <<"triangle", 19, Num(70, 1)>>,
          Num(8, 1), 4,
          <<"lowpass", Num(2400, 1), Num(4, 1), Num(850, 1), Num(88, 100), Num(65, 100)>>,
          <<880, 400, Num(72, 100), 1350>>,
          <<"square", Num(8, 10), Num(10, 1), Num(500, 1), Num(20, 1)>>,
          <<Num(48, 100), Num(44, 1), Num(26, 1), Num(68, 1), Num(5, 1), Num(5, 10), 0, Num(3, 10), 0, Num(50, 1)>>,
          Num(42, 1)),
   Preset("Glass Pad", <<"sine", 0, Num(85, 1)>>, <<"triangle", 31, Num(60, 1)>>,
          Num(18, 1), 6,
          <<"highpass", Num(600, 1), Num(5, 1), Num(900, 1), Num(92, 100), Num(68, 100)>>,
          <<920, 480, Num(62, 100), 1550>>,
          <<"sine", Num(22, 10), Num(25, 1), Num(700, 1), Num(28, 1)>>,
          <<Num(5, 10), Num(62, 1), Num(45, 1), Num(85, 1), 0, Num(9, 10), Num(52, 1), Num(3, 10), 0, Num(50, 1)>>,
          Num(38, 1)),
   Preset("Texture Pad", <<"sawtooth", 0 - 12, Num(75, 1)>>, <<"square", 12, Num(75, 1)>>,
          Num(10, 1), 3,
          <<"lowpass", Num(1400, 1), Num(35, 10), Num(600, 1), Num(12, 10), Num(9, 10)>>,
          <<1200, 550, Num(7, 10), 1800>>,
          <<"triangle", Num(35, 100), Num(8, 1), Num(400, 1), Num(18, 1)>>,
          <<Num(68, 100), Num(48, 1), Num(28, 1), Num(75, 1), Num(12, 1), Num(5, 10), 0, Num(3, 10), 0, Num(50, 1)>>,
          Num(42, 1)),
   Preset("Metallic Pad", <<"square", 0, Num(80, 1)>>, <<"triangle", 24, Num(70, 1)>>,
          Num(12, 1), 5,
          <<"bandpass", Num(2800, 1), Num(8, 1), Num(1200, 1), Num(95, 100), Num(75, 100)>>,
          <<950, 500, Num(68, 100), 1600>>,
          <<"sine", Num(12, 10), Num(16, 1), Num(700, 1), Num(22, 1)>>,
          <<Num(52, 100), Num(54, 1), Num(35, 1), Num(78, 1), 0, Num(5, 10), 0, Num(6, 10), Num(58, 1), Num(75, 1)>>,
          Num(40, 1)),
   Preset("Space Pad", <<"sine", 0, Num(88, 1)>>, <<"triangle", 19, Num(72, 1)>>,
          Num(20, 1), 4,
          <<"lowpass", Num(2600, 1), Num(25, 10), Num(750, 1), Num(14, 10), Num(95, 100)>>,
          <<1400, 600, Num(72, 100), 2000>>,
          <<"sine", Num(28, 100), Num(10, 1), Num(500, 1), Num(20, 1)>>,
          <<Num(72, 100), Num(56, 1), Num(38, 1), Num(90, 1), 0, Num(5, 10), 0, Num(25, 100), Num(42, 1), Num(55, 1)>>,
          Num(39, 1)),
   Preset("Laser Zap", <<"square", 0, Num(100, 1)>>, <<"sawtooth", 7, Num(80, 1)>>,
          Num(15, 1), 6,
          <<"bandpass", Num(5000, 1), Num(20, 1), Num(0 - 4000, 1), Num(1, 1000), Num(3, 10)>>,
          <<1, 400, Num(2, 10), 300>>,
          <<"sawtooth", Num(15, 1), Num(100, 1), Num(3000, 1), 0>>,
          <<Num(15, 100), Num(60, 1), Num(40, 1), Num(50, 1)>>,
          Num(50, 1)),
   Preset("Space Sweep", <<"sine", 0, Num(90, 1)>>, <<"triangle", 19, Num(70, 1)>>,
          Num(20, 1), 5,
          <<"highpass", Num(200, 1), Num(8, 1), Num(3000, 1), Num(2, 1), Num(15, 10)>>,
          <<500, 1000, Num(5, 10), 2000>>,
          <<"sine", Num(3, 10), Num(50, 1), Num(2000, 1), Num(30, 1)>>,
          <<Num(8, 10), Num(70, 1), Num(60, 1), Num(90, 1)>>,
          Num(45, 1)),
   Preset("Robot Voice", <<"square", 0, Num(100, 1)>>, <<"square", 0 - 24, Num(100, 1)>>,
          Num(25, 1), 4,
          <<"bandpass", Num(1500, 1), Num(15, 1), 0, Num(1, 100), Num(1, 10)>>,
          <<10, 100, Num(8, 10), 200>>,
          <<"square", Num(8, 1), 0, Num(1000, 1), Num(50, 1)>>,
          <<Num(2, 10), Num(50, 1), Num(30, 1), Num(40, 1)>>,
          Num(50, 1)),
   Preset("Wind Noise", <<"sine", 0, Num(30, 1)>>, <<"triangle", 12, Num(30, 1)>>,
          Num(100, 1), 3,
          <<"bandpass", Num(2000, 1), Num(5, 1), 0, Num(5, 10), Num(5, 10)>>,
          <<2000, 1000, Num(7, 10), 2500>>,
          <<"sine", Num(5, 10), 0, Num(1500, 1), Num(40, 1)>>,
          <<Num(6, 10), Num(60, 1), Num(40, 1), Num(85, 1)>>,
          Num(45, 1)),
   Preset("Glitch Hit", <<"square", 0, Num(100, 1)>>, <<"sawtooth", 31, Num(100, 1)>>,
          Num(40, 1), 5,
          <<"notch", Num(3000, 1), Num(25, 1), Num(0 - 2000, 1), Num(1, 1000), Num(5, 100)>>,
          <<1, 80, Num(1, 10), 150>>,
          <<"square", Num(20, 1), Num(200, 1), Num(4000, 1), Num(80, 1)>>,
          <<Num(1, 10), Num(80, 1), Num(50, 1), Num(60, 1), 0, Num(5, 10), 0, Num(3, 10), 0, Num(50, 1)>>,
          Num(50, 1)),
   Preset("Sci-Fi Riser", <<"sawtooth", 0, Num(100, 1)>>, <<"square", 12, Num(80, 1)>>,
          Num(25, 1), 4,
          <<"lowpass", Num(800, 1), Num(10, 1), Num(4500, 1), Num(25, 10), Num(5, 10)>>,
          <<2000, 500, Num(8, 10), 1500>>,
          <<"sine", Num(2, 10), Num(80, 1), Num(2500, 1), 0>>,
          <<Num(4, 10), Num(65, 1), Num(45, 1), Num(70, 1), Num(15, 1), Num(5, 10), 0, Num(3, 10), 0, Num(50, 1)>>,
          Num(47, 1)),
   Preset("Impact Hit", <<"sine", 0, Num(100, 1)>>, <<"triangle", 0 - 12, Num(80, 1)>>,
          Num(60, 1), 2,
          <<"lowpass", Num(150, 1), Num(8, 1), Num(1000, 1), Num(1, 1000), Num(15, 100)>>,
          <<1, 200, Num(3, 10), 500>>,
          <<"sine", Num(5, 1), 0, 0, 0>>,
          <<Num(3, 10), Num(40, 1), Num(25, 1), Num(60, 1), Num(35, 1), Num(5, 10), 0, Num(3, 10), 0, Num(50, 1)>>,
          Num(60, 1)),
   Preset("Sweep Down", <<"sawtooth", 0, Num(100, 1)>>, <<"triangle", 7, Num(70, 1)>>,
          Num(15, 1), 5,
          <<"lowpass", Num(8000, 1), Num(12, 1), Num(0 - 6000, 1), Num(1, 100), Num(15, 10)>>,
          <<10, 1200, Num(4, 10), 800>>,
          <<"sine", Num(5, 10), Num(0 - 40, 1), Num(0 - 1500, 1), 0>>,
          <<Num(35, 100), Num(55, 1), Num(35, 1), Num(65, 1), 0, Num(5, 10), 0, Num(3, 10), 0, Num(50, 1)>>,
          Num(48, 1)),
   Preset("Alarm Siren", <<"square", 0, Num(100, 1)>>, <<"square", 12, Num(80, 1)>>,
          0, 5,
          <<"bandpass", Num(2000, 1), Num(15, 1), 0, Num(1, 100), Num(1, 10)>>,
          <<10, 100, Num(9, 10), 200>>,
          <<"triangle", Num(4, 1), Num(200, 1), Num(1500, 1), 0>>,
          <<Num(25, 100), Num(50, 1), Num(30, 1), Num(40, 1), Num(20, 1), Num(5, 10), 0, Num(3, 10), 0, Num(50, 1)>>,
          Num(52, 1)),
   Preset("Radio Static", <<"square", 0, Num(40, 1)>>, <<"sawtooth", 24, Num(40, 1)>>,
          Num(90, 1), 5,
          <<"bandpass", Num(3500, 1), Num(12, 1), 0, Num(1, 10), Num(2, 10)>>,
          <<100, 300, Num(85, 100), 400>>,
          <<"square", Num(10, 1), 0, Num(2000, 1), Num(60, 1)>>,
          <<Num(15, 100), Num(45, 1), Num(25, 1), Num(35, 1), Num(30, 1), Num(5, 10), 0, Num(3, 10), 0, Num(50, 1)>>,
          Num(48, 1)),
   Preset("Underwater", <<"sine", 0, Num(85, 1)>>, <<"triangle", 5, Num(75, 1)>>,
          Num(30, 1), 3,
          <<"lowpass", Num(600, 1), Num(6, 1), Num(400, 1), Num(1, 1), Num(8, 10)>>,
          <<500, 800, Num(7, 10), 1500>>,
          <<"sine", Num(4, 10), Num(15, 1), Num(300, 1), Num(25, 1)>>,
          <<Num(55, 100), Num(60, 1), Num(50, 1), Num(85, 1), 0, Num(3, 10), Num(45, 1), Num(3, 10), 0, Num(50, 1)>>,
          Num(45, 1)),
   Preset("Transmission", <<"square", 0, Num(80, 1)>>, <<"sawtooth", 19, Num(70, 1)>>,
          Num(45, 1), 5,
          <<"bandpass", Num(2800, 1), Num(18, 1), 0, Num(5, 100), Num(1, 10)>>,
          <<50, 150, Num(7, 10), 300>>,
          <<"square", Num(12, 1), Num(50, 1), Num(1800, 1), Num(70, 1)>>,
          <<Num(18, 100), Num(55, 1), Num(35, 1), Num(45, 1), Num(38, 1), Num(5, 10), 0, Num(3, 10), 0, Num(50, 1)>>,
          Num(48, 1)),
   Preset("Thunderstorm", <<"sine", 0, Num(70, 1)>>, <<"triangle", 0 - 12, Num(60, 1)>>,
          Num(80, 1), 2,
          <<"lowpass", Num(500, 1), Num(4, 1), Num(300, 1), Num(8, 10), Num(12, 10)>>,
          <<300, 1500, Num(6, 10), 2000>>,
          <<"sine", Num(2, 10), Num(10, 1), Num(200, 1), Num(35, 1)>>,
          <<Num(65, 100), Num(65, 1), Num(45, 1), Num(88, 1), Num(10, 1), Num(5, 10), 0, Num(3, 10), 0, Num(50, 1)>>,
          Num(46, 1)),
   Preset("Digital Glitch", <<"square", 0, Num(100, 1)>>, <<"sawtooth", 36, Num(90, 1)>>,
          Num(50, 1), 6,
          <<"notch", Num(4000, 1), Num(20, 1), Num(0 - 3000, 1), Num(1, 1000), Num(4, 100)>>,
          <<1, 50, Num(15, 100), 100>>,
          <<"square", Num(25, 1), Num(300, 1), Num(5000, 1), Num(90, 1)>>,
          <<Num(8, 100), Num(75, 1), Num(55, 1), Num(55, 1), Num(45, 1), Num(5, 10), 0, Num(3, 10), 0, Num(50, 1)>>,
          Num(48, 1)),
   Preset("Helicopter", <<"sawtooth", 0, Num(70, 1)>>, <<"square", 0 - 5, Num(60, 1)>>,
          Num(70, 1), 2,
          <<"bandpass", Num(800, 1), Num(8, 1), 0, Num(1, 10), Num(2, 10)>>,
          <<100, 200, Num(9, 10), 500>>,
          <<"square", Num(8, 1), 0, Num(600, 1), Num(50, 1)>>,
          <<Num(22, 100), Num(60, 1), Num(35, 1), Num(50, 1), Num(25, 1), Num(5, 10), 0, Num(12, 10), Num(55, 1), Num(70, 1)>>,
          Num(50, 1)),
   Preset("Cosmic Ray", <<"sine", 0, Num(90, 1)>>, <<"triangle", 31, Num(75, 1)>>,
          Num(35, 1), 6,
          <<"highpass", Num(1000, 1), Num(15, 1), Num(3500, 1), Num(2, 100), Num(8, 10)>>,
          <<20, 900, Num(3, 10), 1200>>,
          <<"sawtooth", Num(12, 1), Num(150, 1), Num(2500, 1), Num(40, 1)>>,
          <<Num(3, 10), Num(70, 1), Num(55, 1), Num(80, 1), 0, Num(5, 10), 0, Num(8, 10), Num(65, 1), Num(75, 1)>>,
          Num(46, 1)),
   Preset("Steam Vent", <<"triangle", 0, Num(50, 1)>>, <<"sine", 7, Num(40, 1)>>,
          Num(95, 1), 4,
          <<"highpass", Num(2000, 1), Num(6, 1), Num(1500, 1), Num(3, 10), Num(6, 10)>>,
          <<300, 800, Num(75, 100), 1000>>,
          <<"sine", Num(6, 10), 0, Num(800, 1), Num(30, 1)>>,
          <<Num(4, 10), Num(50, 1), Num(30, 1), Num(70, 1), Num(15, 1), Num(5, 10), 0, Num(3, 10), 0, Num(50, 1)>>,
          Num(47, 1)),
   Preset("Alien Voice", <<"square", 0, Num(90, 1)>>, <<"sawtooth", 0 - 19, Num(85, 1)>>,
          Num(30, 1), 4,
          <<"bandpass", Num(1200, 1), Num(18, 1), Num(2000, 1), Num(8, 100), Num(3, 10)>>,
          <<50, 250, Num(65, 100), 400>>,
          <<"triangle", Num(6, 1), Num(80, 1), Num(1500, 1), Num(40, 1)>>,
          <<Num(28, 100), Num(58, 1), Num(40, 1), Num(55, 1), Num(22, 1), Num(9, 10), Num(48, 1), Num(3, 10), 0, Num(50, 1)>>,
          Num(49, 1)),
   Preset("Electric Buzz", <<"square", 0, Num(100, 1)>>, <<"square", 1, Num(95, 1)>>,
          Num(20, 1), 5,
          <<"bandpass", Num(3000, 1), Num(22, 1), 0, Num(1, 100), Num(5, 100)>>,
          <<10, 50, Num(95, 100), 150>>,
          <<"square", Num(18, 1), Num(10, 1), Num(2000, 1), Num(75, 1)>>,
          <<Num(12, 100), Num(65, 1), Num(35, 1), Num(40, 1), Num(40, 1), Num(5, 10), 0, Num(3, 10), 0, Num(50, 1)>>,
          Num(50, 1))}

\* a custom preset, in persisted form
Presets ==
  {[name |-> "Vibrato",
    osc1 |-> [wave |-> "sawtooth", detune |-> 0, level |-> Num(100, 1)],
    osc2 |-> [wave |-> "square", detune |-> 7, level |-> Num(50, 1)],
    noiseLevel |-> 0,
    octave |-> 4,
    filter |-> [type |-> "lowpass", cutoff |-> Num(2000, 1), resonance |-> Num(1, 1),
                envAmount |-> 0, attack |-> Num(1, 10), decay |-> Num(2, 10)],
    ampEnv |-> [attack |-> 10, decay |-> 100, sustain |-> Num(7, 10), release |-> 300],
    lfo |-> [wave |-> "sine", rate |-> Num(5, 1), pitchDepth |-> Num(15, 1),
             filterDepth |-> 0, ampDepth |-> 0],
    effects |-> [delayTime |-> Num(3, 10), delayFeedback |-> Num(30, 1),
                 delayMix |-> 0, reverbMix |-> 0,
                 distortionDrive |-> 0, chorusRate |-> Num(5, 10),
                 chorusDepth |-> 0, flangerRate |-> Num(3, 10),
                 flangerDepth |-> 0, flangerFeedbackAmount |-> Num(50, 1)],
    masterVolume |-> Num(50, 1),
    maxVolume |-> Num(100, 1)]}

VARIABLES
  backend,        \* the host has window.AudioContext or webkitAudioContext
  uncaught,       \* a handler has ended in an exception nobody caught
  audioContext,   \* AudioEngine.audioContext exists (initialize has run)
  nodes,          \* the shared nodes of the AudioEngine and their connections
  masterVolume,   \* AudioEngine.masterVolume
  maxVolume,      \* AudioEngine.maxVolume
  masterGain,     \* target of masterGain.gain, units 1/(VolScale*FactorScale)
  limiter,        \* AudioEngine.limiter: [gain, ceiling, lookahead, release]
  effects,        \* AudioEngine.effects
  osc1, osc2,     \* VoiceManager.osc1 / osc2: [wave, detune, level]
  noiseLevel,     \* VoiceManager.noiseLevel
  octave,         \* VoiceManager.octave
  filter,         \* VoiceManager.filter
  ampEnv,         \* VoiceManager.ampEnv: [attack, decay, sustain, release]
  lfo,            \* VoiceManager.lfo: [wave, rate, pitchDepth, filterDepth, ampDepth]
  activeVoices,   \* VoiceManager.activeVoices: noteId -> voice
  activeNotes,    \* MIDIController.activeNotes: midiNote -> noteId
  voices          \* every voice object constructed so far, in order of construction

vars == <<backend, uncaught, audioContext, nodes, masterVolume, maxVolume,
          masterGain, limiter, effects, osc1, osc2, noiseLevel, octave, filter,
          ampEnv, lfo, activeVoices, activeNotes, voices>>

\* the ParameterModel: what the sliders, knobs, controllers and presets set
params == <<masterVolume, maxVolume, limiter, effects, osc1, osc2, noiseLevel,
            octave, filter, ampEnv, lfo>>

\* what no handler changes
host == <<backend>>

(* ---------------- helpers ---------------- *)
Min(S) == CHOOSE x \in S : \A y \in S : x <= y

EmptyMap == [k \in {} |-> 0]

MapSet(m, k, v) == [x \in (DOMAIN m) \cup {k} |-> IF x = k THEN v ELSE m[x]]

MapDelete(m, k) == [x \in (DOMAIN m) \ {k} |-> m[x]]

\* Math.sqrt, rounded down to an integer
RECURSIVE ISqrt(_)
ISqrt(x) ==
  IF x < 2 THEN x
  ELSE CHOOSE r \in {2 * s + d : s \in {ISqrt(x \div 4)}, d \in {0, 1}} :
         r * r <= x /\ (r + 1) * (r + 1) > x

ManualNoteId(note, octaveOffset) == <<note, octaveOffset>>

\* a MIDI identity built like a keyboard identity: note name and offset
MidiNoteIdAsKey(midiNote) == <<"C", midiNote - 60>>

MidiNoteId(midiNote) == <<"midi", midiNote>>

ManualIds == {ManualNoteId(n, o) : n \in Notes, o \in OctaveOffsets}

(* the part of the state the handlers change, as one record *)
Cur == [uncaught |-> uncaught, audioContext |-> audioContext, nodes |-> nodes,
        masterGain |-> masterGain,
        activeVoices |-> activeVoices, activeNotes |-> activeNotes,
        voices |-> voices]

(* ---------------- Web Audio / timer primitives ---------------- *)
\* AudioScheduledSourceNode.stop(when): a source that has ended stays ended,
\* otherwise the latest stop time wins; left = when - currentTime
StopSource(src, left) ==
  IF src.stop = 0 THEN src ELSE [src EXCEPT !.stop = left]

StopAll(oscillators, left) ==
  [i \in DOMAIN oscillators |-> StopSource(oscillators[i], left)]

\* clearTimeout(handle): only a pending timer is affected
clearTimeout(timer) == IF timer >= 0 THEN NoTimer ELSE timer

\* time passing by d for a value that counts down to 0
Elapse(left, d) ==
  IF left < 0 THEN left
  ELSE IF left > d THEN left - d ELSE 0

(* ---------------- AudioEngine ---------------- *)
\* Math.exp(y) for y and the result in units of 1/VolScale: the power series,
\* every term rounded down
RECURSIVE ExpSeries(_, _, _)
ExpSeries(y, k, term) ==
  IF k > ExpTerms THEN 0
  ELSE term + ExpSeries(y, k + 1, (term * y) \div (k * VolScale))

\* Math.pow(10, dB / 20) for a level in tenths of a dB between -MaxDb and
\* MaxDb, to about three digits
DbToLinear(tenths) == ExpSeries((tenths * LnTenOver200) \div 100, 1, VolScale)

\* the nodes before initialize: every field of the constructor is null
NullNodes ==
  [generation |-> 0,
   created |-> {},
   connections |-> {},
   distortionCurve |-> Null,
   chorusLFOFrequency |-> Null,
   chorusWetGain |-> Null,
   flangerLFOFrequency |-> Null,
   flangerLFOGain |-> Null,
   flangerFeedbackGain |-> Null,
   flangerWetGain |-> Null,
   delayTime |-> Null,
   delayFeedbackGain |-> Null,
   delayWetGain |-> Null,
   reverbWetGain |-> Null,
   limiterGain |-> Null,
   compressorAttack |-> Null,
   compressorRelease |-> Null,
   hardClipperCurve |-> Null]

\* updateDistortionCurve(amount): the curve is kept as the amount it was
\* computed from, DistortionCurveEntry gives its entries
updateDistortionCurve(n, amount) == [n EXCEPT !.distortionCurve = amount]

\* the input value sample i of the curve stands for: (i * 2) / samples - 1
SampledX(i) == [num |-> 2 * i - DistortionSamples, den |-> DistortionSamples]

\* entry i of a curve that has no special case for drive 0
DistortionCurveEntryShapedOnly(amount, i) ==
  LET x == 2 * i - DistortionSamples
      absx == IF x < 0 THEN 0 - x ELSE x
      a == amount \div VolScale
  IN [num |-> (6 + a) * x,
      den |-> (PiScaled * 2 * (DistortionSamples \div 100)) \div 1000 + a * absx]

\* entry i of the curve updateDistortionCurve(amount) computes, as a fraction:
\* x = (i * 2) / samples - 1, then x itself for drive 0 and otherwise
\* ((3 + k) * x) / (PI + k * |x|) with k = amount / 2 (both sides doubled and
\* multiplied by samples; amount in whole percent)
DistortionCurveEntry(amount, i) ==
  LET x == 2 * i - DistortionSamples
      absx == IF x < 0 THEN 0 - x ELSE x
      a == amount \div VolScale
  IN IF amount = 0 THEN [num |-> x, den |-> DistortionSamples]
     ELSE [num |-> (6 + a) * x,
           den |-> (PiScaled * 2 * (DistortionSamples \div 100)) \div 1000 + a * absx]

\* setupEffects: the nodes of the effects and the values they start with (the
\* dry gains, the delay times of chorus and flanger and the depth of the
\* chorus LFO are fixed numbers and are left out)
setupEffects(n) ==
  LET made == [n EXCEPT
        !.created = @ \cup {"distortion", "chorusDelay", "chorusLFO", "chorusLFOGain",
                           "chorusWet", "chorusDry", "flangerDelay", "flangerLFO",
                           "flangerLFOGain", "flangerFeedback", "flangerWet",
                           "flangerDry", "delayNode", "delayFeedback", "delayWet",
                           "delayDry", "convolver", "reverbWet", "reverbDry"},
        !.connections = @ \cup {<<"chorusLFO", "chorusLFOGain">>,
                               <<"chorusLFOGain", "chorusDelay.delayTime">>,
                               <<"flangerLFO", "flangerLFOGain">>,
                               <<"flangerLFOGain", "flangerDelay.delayTime">>},
        !.chorusLFOFrequency = effects.chorusRate,
        !.chorusWetGain = 0,
        !.flangerLFOFrequency = effects.flangerRate,
        !.flangerLFOGain = Num(2, 1000),
        !.flangerFeedbackGain = effects.flangerFeedbackAmount,
        !.flangerWetGain = 0,
        !.delayTime = effects.delayTime,
        !.delayFeedbackGain = effects.delayFeedback,
        !.delayWetGain = effects.delayMix,
        !.reverbWetGain = effects.reverbMix]
  IN updateDistortionCurve(made, 0)

\* updateLimiterGain, for the gain in the limiter record lim
updateLimiterGain(n, lim) ==
  IF "limiterGain" \in n.created
  THEN [n EXCEPT !.limiterGain = DbToLinear(lim.gain)]
  ELSE n

\* updateHardClipperCurve, for the ceiling in the limiter record lim: the
\* curve is kept as the linear ceiling it was computed from, HardClipperCurveEntry
\* gives its entries
updateHardClipperCurve(n, lim) ==
  IF "hardClipper" \in n.created
  THEN [n EXCEPT !.hardClipperCurve = DbToLinear(lim.ceiling)]
  ELSE n

\* entry i of a curve that is clamped on the positive side only
HardClipperCurveEntryUpperOnly(ceilingLinear, i) ==
  LET x == 2 * i - ClipperSamples
  IN IF x * VolScale > ceilingLinear * ClipperSamples
       THEN [num |-> ceilingLinear, den |-> VolScale]
     ELSE [num |-> x, den |-> ClipperSamples]

\* entry i of the curve updateHardClipperCurve computes, as a fraction:
\* x = (i * 2) / samples - 1, clamped to [-ceilingLinear, ceilingLinear]
HardClipperCurveEntry(ceilingLinear, i) ==
  LET x == 2 * i - ClipperSamples
  IN IF x * VolScale > ceilingLinear * ClipperSamples
       THEN [num |-> ceilingLinear, den |-> VolScale]
     ELSE IF x * VolScale < 0 - ceilingLinear * ClipperSamples
       THEN [num |-> 0 - ceilingLinear, den |-> VolScale]
     ELSE [num |-> x, den |-> ClipperSamples]

\* a chain whose analyser is fed by the reverb stage, next to the limiter
connectEffectsChainAnalyserFirst(n) ==
  [n EXCEPT !.connections = @ \cup
     {<<"masterGain", "distortion">>,
      <<"distortion", "chorusDry">>, <<"distortion", "chorusDelay">>,
      <<"chorusDelay", "chorusWet">>,
      <<"chorusDry", "flangerDry">>, <<"chorusDry", "flangerDelay">>,
      <<"chorusWet", "flangerDry">>, <<"chorusWet", "flangerDelay">>,
      <<"flangerDelay", "flangerWet">>, <<"flangerDelay", "flangerFeedback">>,
      <<"flangerFeedback", "flangerDelay">>,
      <<"flangerDry", "delayDry">>, <<"flangerDry", "delayNode">>,
      <<"flangerWet", "delayDry">>, <<"flangerWet", "delayNode">>,
      <<"delayNode", "delayFeedback">>,
      <<"delayFeedback", "delayNode">>, <<"delayFeedback", "delayWet">>,
      <<"delayDry", "reverbDry">>, <<"delayWet", "reverbDry">>,
      <<"reverbDry", "convolver">>,
      <<"convolver", "reverbWet">>,
      <<"reverbDry", "limiterGain">>, <<"reverbWet", "limiterGain">>,
      <<"reverbDry", "analyser">>, <<"reverbWet", "analyser">>,
      <<"limiterGain", "limiterCompressor">>,
      <<"limiterCompressor", "hardClipper">>,
      <<"hardClipper", "analyser">>,
      <<"analyser", "destination">>}]

\* connectEffectsChain
connectEffectsChain(n) ==
  [n EXCEPT !.connections = @ \cup
     {<<"masterGain", "distortion">>,
      <<"distortion", "chorusDry">>, <<"distortion", "chorusDelay">>,
      <<"chorusDelay", "chorusWet">>,
      <<"chorusDry", "flangerDry">>, <<"chorusDry", "flangerDelay">>,
      <<"chorusWet", "flangerDry">>, <<"chorusWet", "flangerDelay">>,
      <<"flangerDelay", "flangerWet">>, <<"flangerDelay", "flangerFeedback">>,
      <<"flangerFeedback", "flangerDelay">>,
      <<"flangerDry", "delayDry">>, <<"flangerDry", "delayNode">>,
      <<"flangerWet", "delayDry">>, <<"flangerWet", "delayNode">>,
      <<"delayNode", "delayFeedback">>,
      <<"delayFeedback", "delayNode">>, <<"delayFeedback", "delayWet">>,
      <<"delayDry", "reverbDry">>, <<"delayWet", "reverbDry">>,
      <<"reverbDry", "convolver">>,
      <<"convolver", "reverbWet">>,
      <<"reverbDry", "limiterGain">>, <<"reverbWet", "limiterGain">>,
      <<"limiterGain", "limiterCompressor">>,
      <<"limiterCompressor", "hardClipper">>,
      <<"hardClipper", "analyser">>,
      <<"analyser", "destination">>}]

\* the node objects initialize() creates and wires, from the nodes n
BuildNodes(n) ==
  LET n1 == setupEffects([n EXCEPT !.generation = @ + 1])
      n2 == [n1 EXCEPT !.created = @ \cup {"analyser", "masterGain", "limiterGain"}]
      n3 == updateLimiterGain(n2, limiter)
      n4 == [n3 EXCEPT !.created = @ \cup {"limiterCompressor"},
                       !.compressorAttack = 1000,
                       !.compressorRelease = limiter.release]
      n5 == [n4 EXCEPT !.created = @ \cup {"hardClipper"}]
      n6 == updateHardClipperCurve(n5, limiter)
  IN connectEffectsChain(n6)

\* an initialize without the early return: every call builds the chain anew
initializeEveryCall(st) ==
  IF ~backend THEN [st EXCEPT !.uncaught = TRUE]
  ELSE [st EXCEPT !.audioContext = TRUE,
                  !.masterGain = masterVolume * FactorScale,
                  !.nodes = BuildNodes(@)]

\* new (window.AudioContext || window.webkitAudioContext)() is a TypeError
\* when the host has neither: initialize ends there, nothing is caught
initialize(st) ==
  IF st.audioContext THEN st
  ELSE IF ~backend THEN [st EXCEPT !.uncaught = TRUE]
  ELSE [st EXCEPT !.audioContext = TRUE,
                  !.masterGain = masterVolume * FactorScale,
                  !.nodes = BuildNodes(@)]

\* a factor that falls with 1/N instead of 1/sqrt(N)
compensationFactorLinear(numVoices) ==
  LET half == FactorScale \div 2
      f == half + (half \div numVoices)
  IN IF f < FactorScale THEN f ELSE FactorScale

compensationFactor(numVoices) ==
  LET half == FactorScale \div 2
      f == half + ISqrt((half * half) \div numVoices)
  IN IF f < FactorScale THEN f ELSE FactorScale

updateMasterGainForPolyphony(st, numVoices) ==
  IF numVoices = 0 \/ ~st.audioContext THEN st
  ELSE [st EXCEPT !.masterGain = masterVolume * compensationFactor(numVoices)]

\* gain the master gain node is ramped to by setMasterVolume(volume)
setMasterVolumeGain(gain, volume, initialized) ==
  IF initialized THEN volume * FactorScale ELSE gain

(* ---------------- utils ---------------- *)
\* a frequency in Hz is the fraction num / (VolScale * den); den is a power
\* of two, so that a multiplication by a power of two is exact, as it is in
\* floating point
noteFrequencies ==
  [n \in {"C", "C#", "D", "D#", "E", "F", "F#", "G", "G#", "A", "A#", "B"} |->
     CASE n = "C"  -> Num(26163, 100)
       [] n = "C#" -> Num(27718, 100)
       [] n = "D"  -> Num(29366, 100)
       [] n = "D#" -> Num(31113, 100)
       [] n = "E"  -> Num(32963, 100)
       [] n = "F"  -> Num(34923, 100)
       [] n = "F#" -> Num(36999, 100)
       [] n = "G"  -> Num(3920, 10)
       [] n = "G#" -> Num(4153, 10)
       [] n = "A"  -> Num(4400, 10)
       [] n = "A#" -> Num(46616, 100)
       [] n = "B"  -> Num(49388, 100)]

Hz(x) == [num |-> x, den |-> 1]

\* f * Math.pow(2, e) for an integer e
TimesPowerOfTwo(f, e) ==
  IF e >= 0 THEN [num |-> f.num * 2^e, den |-> f.den]
  ELSE [num |-> f.num, den |-> f.den * 2^(0 - e)]

SameFrequency(f, g) == f.num * g.den = g.num * f.den

\* a getFrequency whose table holds the frequencies of octave 3
getFrequencyFromOctaveThree(note, oct) ==
  TimesPowerOfTwo(Hz(noteFrequencies[note]), oct - 3)

getFrequency(note, oct) ==
  TimesPowerOfTwo(Hz(noteFrequencies[note]), oct - 4)

\* Math.pow(2, r / 12) for r in 0..11, in 1/VolScale; r = 0 gives 1 exactly
PowerOfTwoTwelfths(r) == ExpSeries((r * LnTwoOver12) \div 100, 1, VolScale)

\* 440 * Math.pow(2, (midiNote - 69) / 12)
midiNoteFrequency(midiNote) ==
  LET k == midiNote - ConcertPitchNote
  IN TimesPowerOfTwo(Hz(ConcertPitchHz * PowerOfTwoTwelfths(k % 12)), k \div 12)

(* ---------------- VoiceManager ---------------- *)
\* a source and its gain node: gain.gain.value = gain, and the gain node is
\* connected to the filter
NewSource(kind, gain) ==
  [kind |-> kind, gain |-> gain, connected |-> TRUE, stop |-> NotScheduled]

\* the sources playNote creates, in order (createOscillator, createNoise)
\* sources created whatever their level is
CreateSourcesAtAnyLevel ==
  <<NewSource("osc1", osc1.level), NewSource("osc2", osc2.level)>>

CreateSources ==
  (IF osc1.level > 0 THEN <<NewSource("osc1", osc1.level)>> ELSE <<>>)
  \o (IF osc2.level > 0 THEN <<NewSource("osc2", osc2.level)>> ELSE <<>>)
  \o (IF noiseLevel > 0 THEN <<NewSource("noise", noiseLevel)>> ELSE <<>>)

\* the LFO, created when one of the depths is positive, and the values its
\* gain nodes (to detune, filter.frequency and ampGain.gain) get
CreateLfo ==
  [on |-> (lfo.pitchDepth > 0 \/ lfo.filterDepth > 0 \/ lfo.ampDepth > 0),
   pitchDepth |-> lfo.pitchDepth,
   filterDepth |-> lfo.filterDepth,
   ampDepth |-> lfo.ampDepth,
   stop |-> NotScheduled]

\* one operation on the nodes of a voice: create node, connect node to `to`,
\* or schedule automation on parameter `to` of node
Step(op, node, to) == [op |-> op, node |-> node, to |-> to]

GainNode(kind) ==
  CASE kind = "osc1" -> "gain1" [] kind = "osc2" -> "gain2" [] OTHER -> "noiseGain"

LfoGainNode(kind) == IF kind = "osc1" THEN "lfoGain1" ELSE "lfoGain2"

DetuneParam(kind) == IF kind = "osc1" THEN "osc1.detune" ELSE "osc2.detune"

\* createOscillator / createNoise of a voice, in program order
SourceSteps(voice, kind) ==
  <<Step("create", kind, ""), Step("create", GainNode(kind), "")>>
  \o (IF kind # "noise" /\ voice.lfoOsc.on /\ voice.lfoOsc.pitchDepth > 0
      THEN <<Step("create", LfoGainNode(kind), ""),
             Step("connect", "lfoOsc", LfoGainNode(kind)),
             Step("connect", LfoGainNode(kind), DetuneParam(kind))>>
      ELSE <<>>)
  \o <<Step("connect", kind, GainNode(kind)),
       Step("connect", GainNode(kind), "filter")>>

RECURSIVE AllSourceSteps(_, _)
AllSourceSteps(voice, sources) ==
  IF sources = <<>> THEN <<>>
  ELSE SourceSteps(voice, Head(sources).kind) \o AllSourceSteps(voice, Tail(sources))

\* what playNote / createMIDIVoice did to the nodes of a voice, in program
\* order
ConstructionSteps(voice) ==
  <<Step("create", "filter", "")>>
  \o (IF voice.filter.params.envAmount # 0
      THEN <<Step("schedule", "filter", "frequency")>> ELSE <<>>)
  \o (IF voice.lfoOsc.on THEN <<Step("create", "lfoOsc", "")>> ELSE <<>>)
  \o AllSourceSteps(voice, voice.oscillators)
  \o (IF voice.lfoOsc.on /\ voice.lfoOsc.filterDepth > 0
      THEN <<Step("create", "lfoFilterGain", ""),
             Step("connect", "lfoOsc", "lfoFilterGain"),
             Step("connect", "lfoFilterGain", "filter.frequency")>>
      ELSE <<>>)
  \o <<Step("create", "ampGain", ""), Step("connect", "filter", "ampGain")>>
  \o (IF voice.lfoOsc.on /\ voice.lfoOsc.ampDepth > 0
      THEN <<Step("create", "lfoAmpGain", ""),
             Step("connect", "lfoOsc", "lfoAmpGain"),
             Step("connect", "lfoAmpGain", "ampGain.gain")>>
      ELSE <<>>)
  \o <<Step("connect", "ampGain", "masterGain"),
       Step("schedule", "ampGain", "gain")>>

\* the amplitude gain node and what is scheduled on its gain: from 0 at now
\* the ramps to 1 at attackEnd = now + attack and to sustain at decayEnd =
\* attackEnd + decay; release is the time left of the release ramp and value
\* the value that ramp starts from (gain.value = 0 before, and 0 again when the
\* ramp has ended)
NewAmpGain ==
  [connected |-> TRUE,
   attack |-> ampEnv.attack, decay |-> ampEnv.decay, sustain |-> ampEnv.sustain,
   value |-> 0,
   release |-> NotScheduled]

\* the time since the voice was created: its safety timeout was registered at
\* creation with SafetyTimeoutMs and has run down since (a timeout that has
\* fired had run down to 0)
Age(voice) ==
  IF voice.safetyTimeout >= 0 THEN SafetyTimeoutMs - voice.safetyTimeout
  ELSE SafetyTimeoutMs

\* the value of a gain that ramps from 0 to 1 up to attackEnd, then to sustain
\* up to decayEnd and stays there, at the time age after now
EnvelopeAt(g, age) ==
  IF age >= g.attack + g.decay THEN g.sustain
  ELSE IF age < g.attack THEN (VolScale * age) \div g.attack
  ELSE VolScale - ((VolScale - g.sustain) * (age - g.attack)) \div g.decay

\* voice.ampGain.gain.value of a voice that has not been released
GainValue(voice) == EnvelopeAt(voice.ampGain, Age(voice))

\* a release that starts its ramp at the sustain level
ReleaseRampFromSustain(voice) ==
  [voice.ampGain EXCEPT !.value = voice.ampGain.sustain, !.release = ampEnv.release]

\* cancelScheduledValues(now); setValueAtTime(gain.value, now);
\* linearRampToValueAtTime(0, now + release)
ReleaseRamp(voice) ==
  [voice.ampGain EXCEPT !.value = GainValue(voice), !.release = ampEnv.release]

\* a voice for which no safety timeout is registered
NewVoiceWithoutSafety(noteId, midiNote, frequency, sources) ==
  [noteId |-> noteId,
   midiNote |-> midiNote,
   frequency |-> frequency,
   filter |-> [params |-> filter, connected |-> TRUE],
   oscillators |-> sources,
   lfoOsc |-> CreateLfo,
   ampGain |-> NewAmpGain,
   safetyTimeout |-> NoTimer,
   cleanupTimeout |-> NoTimer]

\* the voice object as playNote leaves it (safety timeout registered)
NewVoice(noteId, midiNote, frequency, sources) ==
  [noteId |-> noteId,
   midiNote |-> midiNote,
   frequency |-> frequency,
   filter |-> [params |-> filter, connected |-> TRUE],
   oscillators |-> sources,
   lfoOsc |-> CreateLfo,
   ampGain |-> NewAmpGain,
   safetyTimeout |-> SafetyTimeoutMs,
   cleanupTimeout |-> NoTimer]

\* a force-stop that stops the sources at the end of the release time
cleanupVoiceAtReleaseEnd(st, h, noteId) ==
  LET voice == st.voices[h]
      stopped == [voice EXCEPT
                    !.cleanupTimeout = clearTimeout(@),
                    !.safetyTimeout = clearTimeout(@),
                    !.oscillators = StopAll(@, ampEnv.release),
                    !.lfoOsc = IF @.on THEN StopSource(@, ampEnv.release) ELSE @]
  IN [st EXCEPT !.voices[h] = stopped,
                !.activeVoices = MapDelete(@, noteId)]

\* a force-stop that leaves the safety timeout of the old voice registered
cleanupVoiceKeepingSafety(st, h, noteId) ==
  LET voice == st.voices[h]
      stopped == [voice EXCEPT
                    !.cleanupTimeout = clearTimeout(@),
                    !.oscillators = StopAll(@, 0),
                    !.lfoOsc = IF @.on THEN StopSource(@, 0) ELSE @]
  IN [st EXCEPT !.voices[h] = stopped,
                !.activeVoices = MapDelete(@, noteId)]

cleanupVoice(st, h, noteId) ==
  LET voice == st.voices[h]
      stopped == [voice EXCEPT
                    !.cleanupTimeout = clearTimeout(@),
                    !.safetyTimeout = clearTimeout(@),
                    !.oscillators = StopAll(@, 0),
                    !.lfoOsc = IF @.on THEN StopSource(@, 0) ELSE @]
  IN [st EXCEPT !.voices[h] = stopped,
                !.activeVoices = MapDelete(@, noteId)]

\* a playNote that does not look for a voice already playing
playNoteKeepingOld(st, note, octaveOffset) ==
  LET noteId == ManualNoteId(note, octaveOffset)
      s2 == initialize(st)
      frequency == TimesPowerOfTwo(getFrequency(note, octave), octaveOffset)
      h == Len(s2.voices) + 1
      s3 == [s2 EXCEPT !.voices = Append(@, NewVoice(noteId, NoMidiNote, frequency, CreateSources)),
                       !.activeVoices = MapSet(@, noteId, h)]
  IN updateMasterGainForPolyphony(s3, Cardinality(DOMAIN s3.activeVoices))

playNote(st, note, octaveOffset) ==
  LET noteId == ManualNoteId(note, octaveOffset)
      s1 == IF noteId \in DOMAIN st.activeVoices
            THEN cleanupVoice(st, st.activeVoices[noteId], noteId)
            ELSE st
      s2 == initialize(s1)
      frequency == TimesPowerOfTwo(getFrequency(note, octave), octaveOffset)
      h == Len(s2.voices) + 1
      s3 == [s2 EXCEPT !.voices = Append(@, NewVoice(noteId, NoMidiNote, frequency, CreateSources)),
                       !.activeVoices = MapSet(@, noteId, h)]
  IN IF ~s2.audioContext THEN s2
     ELSE updateMasterGainForPolyphony(s3, Cardinality(DOMAIN s3.activeVoices))

\* a stopNote that leaves the entry in the active-voice map
stopNoteKeepingEntry(st, noteId) ==
  IF noteId \notin DOMAIN st.activeVoices THEN st
  ELSE
    LET h == st.activeVoices[noteId]
        voice == st.voices[h]
        released == [voice EXCEPT
                       !.safetyTimeout = clearTimeout(@),
                       !.ampGain = ReleaseRamp(voice),
                       !.oscillators = StopAll(@, ampEnv.release),
                       !.lfoOsc = IF @.on THEN StopSource(@, ampEnv.release) ELSE @,
                       !.cleanupTimeout = ampEnv.release + CleanupMarginMs]
        s1 == [st EXCEPT !.voices[h] = released]
    IN updateMasterGainForPolyphony(s1, Cardinality(DOMAIN s1.activeVoices))

stopNote(st, noteId) ==
  IF noteId \notin DOMAIN st.activeVoices THEN st
  ELSE
    LET h == st.activeVoices[noteId]
        voice == st.voices[h]
        released == [voice EXCEPT
                       !.safetyTimeout = clearTimeout(@),
                       !.ampGain = ReleaseRamp(voice),
                       !.oscillators = StopAll(@, ampEnv.release),
                       !.lfoOsc = IF @.on THEN StopSource(@, ampEnv.release) ELSE @,
                       !.cleanupTimeout = ampEnv.release + CleanupMarginMs]
        s1 == [st EXCEPT !.voices[h] = released,
                         !.activeVoices = MapDelete(@, noteId)]
    IN updateMasterGainForPolyphony(s1, Cardinality(DOMAIN s1.activeVoices))

\* notesToStop.forEach(stopNote); every stopNote of the loop sees the same
\* currentTime and parameters, so the order of the keys does not show
RECURSIVE StopEach(_, _)
StopEach(st, notesToStop) ==
  IF notesToStop = {} THEN st
  ELSE LET noteId == CHOOSE n \in notesToStop : TRUE
       IN StopEach(stopNote(st, noteId), notesToStop \ {noteId})

\* a stopAllNotes that stops one of the active notes only
stopAllNotesFirstOnly(st) ==
  IF DOMAIN st.activeVoices = {} THEN st
  ELSE stopNote(st, CHOOSE n \in DOMAIN st.activeVoices : TRUE)

stopAllNotes(st) == StopEach(st, DOMAIN st.activeVoices)

(* ---------------- MIDIController ---------------- *)
\* gain.gain.value = oscParams.level * velocityFactor, velocityFactor =
\* velocity / 127
\* a gain that does not follow the velocity
UnscaledSourceGain(level, velocity) == level
MidiSourceGain(level, velocity) == (level * velocity) \div MidiMaxValue

\* the sources createMIDIVoice creates, in order
CreateMidiSources(velocity) ==
  (IF osc1.level > 0
   THEN <<NewSource("osc1", MidiSourceGain(osc1.level, velocity))>> ELSE <<>>)
  \o (IF osc2.level > 0
      THEN <<NewSource("osc2", MidiSourceGain(osc2.level, velocity))>> ELSE <<>>)
  \o (IF noiseLevel > 0
      THEN <<NewSource("noise", MidiSourceGain(noiseLevel, velocity))>> ELSE <<>>)

createMIDIVoice(noteId, midiNote, frequency, velocity) ==
  NewVoice(noteId, midiNote, frequency, CreateMidiSources(velocity))

\* a note-off whose cleanup does not wait for the release time
handleMIDINoteOffEarlyCleanup(st, midiNote) ==
  IF midiNote \notin DOMAIN st.activeNotes THEN st
  ELSE IF st.activeNotes[midiNote] \notin DOMAIN st.activeVoices THEN st
  ELSE
    LET noteId == st.activeNotes[midiNote]
        h == st.activeVoices[noteId]
        voice == st.voices[h]
        released == [voice EXCEPT
                       !.safetyTimeout = clearTimeout(@),
                       !.ampGain = ReleaseRamp(voice),
                       !.oscillators = StopAll(@, ampEnv.release),
                       !.lfoOsc = IF @.on THEN StopSource(@, ampEnv.release) ELSE @,
                       !.cleanupTimeout = CleanupMarginMs]
        s1 == [st EXCEPT !.voices[h] = released,
                         !.activeVoices = MapDelete(@, noteId),
                         !.activeNotes = MapDelete(@, midiNote)]
    IN updateMasterGainForPolyphony(s1, Cardinality(DOMAIN s1.activeVoices))

handleMIDINoteOff(st, midiNote) ==
  IF midiNote \notin DOMAIN st.activeNotes THEN st
  ELSE IF st.activeNotes[midiNote] \notin DOMAIN st.activeVoices THEN st
  ELSE
    LET noteId == st.activeNotes[midiNote]
        h == st.activeVoices[noteId]
        voice == st.voices[h]
        released == [voice EXCEPT
                       !.safetyTimeout = clearTimeout(@),
                       !.ampGain = ReleaseRamp(voice),
                       !.oscillators = StopAll(@, ampEnv.release),
                       !.lfoOsc = IF @.on THEN StopSource(@, ampEnv.release) ELSE @,
                       !.cleanupTimeout = ampEnv.release + CleanupMarginMs]
        s1 == [st EXCEPT !.voices[h] = released,
                         !.activeVoices = MapDelete(@, noteId),
                         !.activeNotes = MapDelete(@, midiNote)]
    IN updateMasterGainForPolyphony(s1, Cardinality(DOMAIN s1.activeVoices))

handleMIDINoteOn(st, midiNote, velocity) ==
  LET s1 == IF midiNote \in DOMAIN st.activeNotes
            THEN handleMIDINoteOff(st, midiNote)
            ELSE st
      noteId == MidiNoteId(midiNote)
      frequency == midiNoteFrequency(midiNote)
      s2 == initialize(s1)
      h == Len(s2.voices) + 1
      s3 == [s2 EXCEPT !.voices =
                         Append(@, createMIDIVoice(noteId, midiNote, frequency, velocity)),
                       !.activeVoices = MapSet(@, noteId, h),
                       !.activeNotes = MapSet(@, midiNote, noteId)]
  IN IF ~s2.audioContext THEN s2
     ELSE updateMasterGainForPolyphony(s3, Cardinality(DOMAIN s3.activeVoices))

(* ---------------- the state machine ---------------- *)
\* the constructors of AudioEngine, VoiceManager and MIDIController
Constructed ==
  /\ uncaught = FALSE
  /\ audioContext = FALSE
  /\ nodes = NullNodes
  /\ masterVolume = Num(5, 10)
  /\ maxVolume = Undefined
  /\ masterGain = 0
  /\ limiter = [gain |-> 0, ceiling |-> 0 - 3, lookahead |-> 0, release |-> 300]
  /\ effects = [delayTime |-> Num(3, 10), delayFeedback |-> Num(3, 10),
                delayMix |-> 0, reverbMix |-> 0, distortionDrive |-> 0,
                chorusRate |-> Num(5, 10), chorusDepth |-> 0,
                flangerRate |-> Num(3, 10), flangerDepth |-> 0,
                flangerFeedbackAmount |-> Num(5, 10)]
  /\ osc1 = [wave |-> "sawtooth", detune |-> 0, level |-> Num(1, 1)]
  /\ osc2 = [wave |-> "square", detune |-> 7, level |-> Num(5, 10)]
  /\ noiseLevel = 0
  /\ octave = 4
  /\ filter = [type |-> "lowpass", cutoff |-> Num(2000, 1), resonance |-> Num(1, 1),
               envAmount |-> 0, attack |-> Num(1, 10), decay |-> Num(2, 10)]
  /\ ampEnv = [attack |-> 10, decay |-> 100, sustain |-> Num(7, 10), release |-> 300]
  /\ lfo = [wave |-> "sine", rate |-> Num(5, 1), pitchDepth |-> 0,
            filterDepth |-> 0, ampDepth |-> 0]
  /\ activeVoices = EmptyMap
  /\ activeNotes = EmptyMap
  /\ voices = <<>>

Init ==
  /\ backend = TRUE
  /\ Constructed

Commit(st) ==
  /\ uncaught' = st.uncaught
  /\ nodes' = st.nodes
  /\ audioContext' = st.audioContext
  /\ masterGain' = st.masterGain
  /\ activeVoices' = st.activeVoices
  /\ activeNotes' = st.activeNotes
  /\ voices' = st.voices

\* Synthesizer.initAudioContext: the first click or key press
InitAudioContext ==
  /\ Commit(initialize(Cur))
  /\ UNCHANGED <<params, host>>

\* mousedown / touchstart / keydown on a key
PlayNote(note, octaveOffset) ==
  /\ Len(voices) < MaxVoices
  /\ Commit(playNote(Cur, note, octaveOffset))
  /\ UNCHANGED <<params, host>>

\* mouseup / mouseleave / touchend / keyup / blur on a key
StopNote(noteId) ==
  /\ Commit(stopNote(Cur, noteId))
  /\ UNCHANGED <<params, host>>

StopAllNotes ==
  /\ Commit(stopAllNotes(Cur))
  /\ UNCHANGED <<params, host>>

(* what a control change can reach, as one record *)
ControlTargets ==
  [lfo |-> lfo, filter |-> filter, ampEnv |-> ampEnv,
   masterVolume |-> masterVolume, masterGain |-> masterGain,
   effects |-> effects, nodes |-> nodes]

\* a handler whose controller 74 leaves out the 20 Hz the cutoff starts at
handleMIDIControlChangeFromZero(t, ccNumber, value) ==
  IF ccNumber = 1 THEN
    [t EXCEPT !.lfo.pitchDepth = value * 78 * MidiMaxValue]
  ELSE IF ccNumber = 74 THEN
    [t EXCEPT !.filter.cutoff = value * 19980 * PercentScale]
  ELSE IF ccNumber = 71 THEN
    [t EXCEPT !.filter.resonance = Num(1, 10) + value * 299 * (PercentScale \div 10)]
  ELSE IF ccNumber = 73 THEN
    [t EXCEPT !.ampEnv.attack = (value * 2000) \div MidiMaxValue]
  ELSE IF ccNumber = 72 THEN
    [t EXCEPT !.ampEnv.release = (value * 3000) \div MidiMaxValue]
  ELSE IF ccNumber = 7 THEN
    [t EXCEPT !.masterVolume = value * PercentScale,
              !.masterGain = setMasterVolumeGain(@, value * PercentScale, audioContext)]
  ELSE IF ccNumber = 91 THEN
    [t EXCEPT !.effects.reverbMix = value * PercentScale,
              !.nodes = IF "reverbWet" \in @.created
                        THEN [@ EXCEPT !.reverbWetGain = value * PercentScale]
                        ELSE @]
  ELSE t

\* a handler whose switch has a default case: a controller outside the table
\* sets the master volume
handleMIDIControlChangeWithDefault(t, ccNumber, value) ==
  IF ccNumber = 1 THEN
    [t EXCEPT !.lfo.pitchDepth = value * 78 * MidiMaxValue]
  ELSE IF ccNumber = 74 THEN
    [t EXCEPT !.filter.cutoff = Num(20, 1) + value * 19980 * PercentScale]
  ELSE IF ccNumber = 71 THEN
    [t EXCEPT !.filter.resonance = Num(1, 10) + value * 299 * (PercentScale \div 10)]
  ELSE IF ccNumber = 73 THEN
    [t EXCEPT !.ampEnv.attack = (value * 2000) \div MidiMaxValue]
  ELSE IF ccNumber = 72 THEN
    [t EXCEPT !.ampEnv.release = (value * 3000) \div MidiMaxValue]
  ELSE IF ccNumber = 91 THEN
    [t EXCEPT !.effects.reverbMix = value * PercentScale,
              !.nodes = IF "reverbWet" \in @.created
                        THEN [@ EXCEPT !.reverbWetGain = value * PercentScale]
                        ELSE @]
  ELSE
    [t EXCEPT !.masterVolume = value * PercentScale,
              !.masterGain = setMasterVolumeGain(@, value * PercentScale, audioContext)]

\* normalized = value / 127, so normalized * k is value * k * PercentScale;
\* the times of ampEnv are rounded down to whole milliseconds
handleMIDIControlChange(t, ccNumber, value) ==
  IF ccNumber = 1 THEN
    [t EXCEPT !.lfo.pitchDepth = value * 78 * MidiMaxValue]
  ELSE IF ccNumber = 74 THEN
    [t EXCEPT !.filter.cutoff = Num(20, 1) + value * 19980 * PercentScale]
  ELSE IF ccNumber = 71 THEN
    [t EXCEPT !.filter.resonance = Num(1, 10) + value * 299 * (PercentScale \div 10)]
  ELSE IF ccNumber = 73 THEN
    [t EXCEPT !.ampEnv.attack = (value * 2000) \div MidiMaxValue]
  ELSE IF ccNumber = 72 THEN
    [t EXCEPT !.ampEnv.release = (value * 3000) \div MidiMaxValue]
  ELSE IF ccNumber = 7 THEN
    [t EXCEPT !.masterVolume = value * PercentScale,
              !.masterGain = setMasterVolumeGain(@, value * PercentScale, audioContext)]
  ELSE IF ccNumber = 91 THEN
    [t EXCEPT !.effects.reverbMix = value * PercentScale,
              !.nodes = IF "reverbWet" \in @.created
                        THEN [@ EXCEPT !.reverbWetGain = value * PercentScale]
                        ELSE @]
  ELSE t

CommitControl(t) ==
  /\ lfo' = t.lfo
  /\ filter' = t.filter
  /\ ampEnv' = t.ampEnv
  /\ masterVolume' = t.masterVolume
  /\ masterGain' = t.masterGain
  /\ effects' = t.effects
  /\ nodes' = t.nodes
  /\ UNCHANGED <<uncaught, audioContext, activeVoices, activeNotes, voices,
                 maxVolume, limiter, osc1, osc2, noiseLevel, octave, host>>

\* a dispatch that hands every note-on to handleMIDINoteOn, whatever its velocity
HandleMIDIMessageAnyVelocity(command, data1, data2) ==
  LET messageType == (command \div 16) * 16
  IN
  IF messageType = 144 THEN
    /\ Len(voices) < MaxVoices
    /\ Commit(handleMIDINoteOn(Cur, data1, data2))
    /\ UNCHANGED <<params, host>>
  ELSE IF messageType = 128 THEN
    /\ Commit(handleMIDINoteOff(Cur, data1))
    /\ UNCHANGED <<params, host>>
  ELSE IF messageType = 176 THEN
    CommitControl(handleMIDIControlChange(ControlTargets, data1, data2))
  ELSE
    UNCHANGED vars

\* MIDIInput.onmidimessage
HandleMIDIMessage(command, data1, data2) ==
  LET messageType == (command \div 16) * 16
  IN
  IF messageType = 144 /\ data2 > 0 THEN
    /\ Len(voices) < MaxVoices
    /\ Commit(handleMIDINoteOn(Cur, data1, data2))
    /\ UNCHANGED <<params, host>>
  ELSE IF messageType = 144 \/ messageType = 128 THEN
    /\ Commit(handleMIDINoteOff(Cur, data1))
    /\ UNCHANGED <<params, host>>
  ELSE IF messageType = 176 THEN
    CommitControl(handleMIDIControlChange(ControlTargets, data1, data2))
  ELSE
    UNCHANGED vars

(* ---------------- Synthesizer (the monolithic build) ---------------- *)
\* Synthesizer.initAudioContext, as far as the voices see it: the context and
\* the master gain exist afterwards (the effect chain of the monolithic build
\* is not modelled)
SynthesizerInitAudioContext(st) ==
  IF st.audioContext THEN st
  ELSE [st EXCEPT !.audioContext = TRUE,
                  !.masterGain = masterVolume * FactorScale]

\* Synthesizer.handleMIDINoteOn: the voice is built and stored; there is no
\* look for a voice already stored under the note, no safety timeout and no
\* polyphony compensation
SynthesizerHandleMIDINoteOn(st, midiNote, velocity) ==
  LET noteId == MidiNoteId(midiNote)
      s1 == SynthesizerInitAudioContext(st)
      h == Len(s1.voices) + 1
      voice == [createMIDIVoice(noteId, midiNote, midiNoteFrequency(midiNote), velocity)
                  EXCEPT !.safetyTimeout = NoTimer]
  IN [s1 EXCEPT !.voices = Append(@, voice),
                !.activeVoices = MapSet(@, noteId, h),
                !.activeNotes = MapSet(@, midiNote, noteId)]

\* Synthesizer.handleMIDINoteOff: release ramp and stops for the voice the
\* maps hold; no cleanup is scheduled
SynthesizerHandleMIDINoteOff(st, midiNote) ==
  IF midiNote \notin DOMAIN st.activeNotes THEN st
  ELSE IF st.activeNotes[midiNote] \notin DOMAIN st.activeVoices THEN st
  ELSE
    LET noteId == st.activeNotes[midiNote]
        h == st.activeVoices[noteId]
        voice == st.voices[h]
        released == [voice EXCEPT
                       !.ampGain = ReleaseRamp(voice),
                       !.oscillators = StopAll(@, ampEnv.release),
                       !.lfoOsc = IF @.on THEN StopSource(@, ampEnv.release) ELSE @]
    IN [st EXCEPT !.voices[h] = released,
                  !.activeVoices = MapDelete(@, noteId),
                  !.activeNotes = MapDelete(@, midiNote)]

\* Synthesizer.handleMIDIMessage for note messages: [command, note, velocity]
SynthesizerHandleMIDIMessage(command, note, velocity) ==
  LET messageType == (command \div 16) * 16
  IN
  IF messageType = 144 /\ velocity > 0 THEN
    /\ Len(voices) < MaxVoices
    /\ Commit(SynthesizerHandleMIDINoteOn(Cur, note, velocity))
    /\ UNCHANGED <<params, host>>
  ELSE IF messageType = 144 \/ messageType = 128 THEN
    /\ Commit(SynthesizerHandleMIDINoteOff(Cur, note))
    /\ UNCHANGED <<params, host>>
  ELSE
    UNCHANGED vars

(* ---------------- timers and time ---------------- *)
\* a safety callback that releases every active note
safetyTimeoutCallbackStoppingAll(st, h) ==
  stopAllNotes([st EXCEPT !.voices[h].safetyTimeout = Fired])

\* the safety timeout of voice h is due: its callback looks the noteId up
safetyTimeoutCallback(st, h) ==
  LET voice == st.voices[h]
      fired == [st EXCEPT !.voices[h].safetyTimeout = Fired]
  IN IF voice.noteId \notin DOMAIN st.activeVoices THEN fired
     ELSE IF voice.midiNote = NoMidiNote
          THEN stopNote(fired, voice.noteId)
          ELSE handleMIDINoteOff(fired, voice.midiNote)

SafetyTimeoutFires(h) ==
  /\ h \in DOMAIN voices
  /\ voices[h].safetyTimeout = 0
  /\ Commit(safetyTimeoutCallback(Cur, h))
  /\ UNCHANGED <<params, host>>

\* the disconnect calls of the cleanup callback, in program order:
\* voice.ampGain, voice.filter, then every entry of voice.gainNodes
DisconnectCalls(voice) == 2 + Len(voice.oscillators)

\* the voice after the cleanup callback has run: try { disconnect calls 1 ..
\* calls } catch (e) {}, where call number throwsAt throws (0: none does);
\* the call that throws disconnects nothing and ends the try block
Disconnect(voice, calls, throwsAt) ==
  LET Done(call) == call <= calls /\ (throwsAt = 0 \/ call < throwsAt)
  IN [voice EXCEPT
        !.cleanupTimeout = Fired,
        !.ampGain.connected = @ /\ ~Done(1),
        !.filter.connected = @ /\ ~Done(2),
        !.oscillators = [i \in DOMAIN @ |->
                           [@[i] EXCEPT !.connected = @ /\ ~Done(2 + i)]]]

\* the cleanup timeout of voice h is due: disconnect its nodes
CleanupTimeoutFires(h) ==
  /\ h \in DOMAIN voices
  /\ voices[h].cleanupTimeout = 0
  /\ voices' = [voices EXCEPT ![h] = Disconnect(@, DisconnectCalls(@), 0)]
  /\ UNCHANGED <<uncaught, audioContext, nodes, masterGain, activeVoices, activeNotes>>
  /\ UNCHANGED <<params, host>>

\* the cleanup timeout of voice h is due, and in its callback the disconnect
\* call number throwsAt throws
CleanupTimeoutThrows(h, throwsAt) ==
  /\ h \in DOMAIN voices
  /\ voices[h].cleanupTimeout = 0
  /\ throwsAt \in 1..DisconnectCalls(voices[h])
  /\ voices' = [voices EXCEPT ![h] = Disconnect(@, DisconnectCalls(@), throwsAt)]
  /\ UNCHANGED <<uncaught, audioContext, nodes, masterGain, activeVoices, activeNotes>>
  /\ UNCHANGED <<params, host>>

Timers(voice) == {voice.safetyTimeout, voice.cleanupTimeout} \ {NoTimer, Fired}

Schedules(voice) ==
  ({voice.ampGain.release, voice.lfoOsc.stop}
     \cup {voice.oscillators[i].stop : i \in DOMAIN voice.oscillators})
  \ {NotScheduled}

\* what is still to come: timers that are pending, stops and ramps scheduled
Pending == UNION {Timers(voices[h]) \cup Schedules(voices[h]) : h \in DOMAIN voices} \ {0}

TimerDue == \E h \in DOMAIN voices : 0 \in Timers(voices[h])

ElapseVoice(voice, d) ==
  [voice EXCEPT
     !.safetyTimeout = Elapse(@, d),
     !.cleanupTimeout = Elapse(@, d),
     !.ampGain.release = Elapse(@, d),
     !.ampGain.value = IF Elapse(voice.ampGain.release, d) = 0 THEN 0 ELSE @,
     !.lfoOsc.stop = Elapse(@, d),
     !.oscillators = [i \in DOMAIN @ |-> [@[i] EXCEPT !.stop = Elapse(@, d)]]]

\* time passes up to the next thing that is due; a timer that is due runs
\* before time goes on
TickSteps == IF TimerDue \/ Pending = {} THEN {} ELSE {Min(Pending)}

Tick(d) ==
  /\ d \in TickSteps
  /\ voices' = [h \in DOMAIN voices |-> ElapseVoice(voices[h], d)]
  /\ UNCHANGED <<uncaught, audioContext, nodes, masterGain, activeVoices, activeNotes>>
  /\ UNCHANGED <<params, host>>

\* a voice that is held: in the map, its release not yet scheduled
Held(h) ==
  /\ h \in DOMAIN voices
  /\ voices[h].noteId \in DOMAIN activeVoices
  /\ activeVoices[voices[h].noteId] = h
  /\ voices[h].ampGain.release = NotScheduled

\* time passes while a note is held, up to one of the sampled ages of a held
\* voice and never past something that is due
WaitSteps ==
  IF TimerDue THEN {}
  ELSE {d \in {a - Age(voices[h]) : a \in SampleAges, h \in {g \in DOMAIN voices : Held(g)}} :
          d > 0 /\ (Pending = {} \/ d <= Min(Pending))}

Wait(d) ==
  /\ d \in WaitSteps
  /\ voices' = [h \in DOMAIN voices |-> ElapseVoice(voices[h], d)]
  /\ UNCHANGED <<uncaught, audioContext, nodes, masterGain, activeVoices, activeNotes>>
  /\ UNCHANGED <<params, host>>

(* ---------------- parameters ---------------- *)
\* the master-volume slider: setMasterVolume(value / 100)
SetMasterVolume(value) ==
  LET volume == value * (VolScale \div PercentScale)
  IN
  /\ masterVolume' = volume
  /\ masterGain' = setMasterVolumeGain(masterGain, volume, audioContext)
  /\ UNCHANGED <<uncaught, audioContext, nodes, activeVoices, activeNotes, voices,
                 maxVolume, limiter, effects, osc1, osc2, noiseLevel, octave,
                 filter, ampEnv, lfo, host>>

\* the limiter-gain slider: setLimiterGain(gainDb)
SetLimiterGain(gainDb) ==
  /\ limiter' = [limiter EXCEPT !.gain = gainDb]
  /\ nodes' = updateLimiterGain(nodes, limiter')
  /\ UNCHANGED <<uncaught, audioContext, masterGain, activeVoices, activeNotes, voices,
                 masterVolume, maxVolume, effects, osc1, osc2, noiseLevel, octave,
                 filter, ampEnv, lfo, host>>

\* the limiter-lookahead slider: setLimiterLookahead(lookaheadMs); the
\* lookahead and the attack of the compressor are kept in microseconds
SetLimiterLookahead(lookahead) ==
  /\ limiter' = [limiter EXCEPT !.lookahead = lookahead]
  /\ nodes' = IF "limiterCompressor" \in nodes.created
              THEN [nodes EXCEPT !.compressorAttack =
                      IF lookahead > MinAttackUs THEN lookahead ELSE MinAttackUs]
              ELSE nodes
  /\ UNCHANGED <<uncaught, audioContext, masterGain, activeVoices, activeNotes, voices,
                 masterVolume, maxVolume, effects, osc1, osc2, noiseLevel, octave,
                 filter, ampEnv, lfo, host>>

\* the limiter-ceiling slider: setLimiterCeiling(ceilingDb)
SetLimiterCeiling(ceilingDb) ==
  /\ limiter' = [limiter EXCEPT !.ceiling = ceilingDb]
  /\ nodes' = updateHardClipperCurve(nodes, limiter')
  /\ UNCHANGED <<uncaught, audioContext, masterGain, activeVoices, activeNotes, voices,
                 masterVolume, maxVolume, effects, osc1, osc2, noiseLevel, octave,
                 filter, ampEnv, lfo, host>>

\* a knob was turned: updateKnobParameter(id, value); value is in the unit the
\* parameter is kept in (ms for the times of ampEnv)
UpdateKnobParameter(id, value) ==
  LET Live(node, n) == IF node \in nodes.created THEN n ELSE nodes
  IN
  /\ osc1' = IF id = "osc1-detune" THEN [osc1 EXCEPT !.detune = value]
             ELSE IF id = "osc1-level" THEN [osc1 EXCEPT !.level = value \div PercentScale]
             ELSE osc1
  /\ osc2' = IF id = "osc2-detune" THEN [osc2 EXCEPT !.detune = value]
             ELSE IF id = "osc2-level" THEN [osc2 EXCEPT !.level = value \div PercentScale]
             ELSE osc2
  /\ noiseLevel' = IF id = "noise-level" THEN value \div PercentScale ELSE noiseLevel
  /\ octave' = IF id = "octave" THEN value ELSE octave
  /\ ampEnv' = IF id = "attack" THEN [ampEnv EXCEPT !.attack = value]
               ELSE IF id = "decay" THEN [ampEnv EXCEPT !.decay = value]
               ELSE IF id = "sustain" THEN [ampEnv EXCEPT !.sustain = value]
               ELSE IF id = "release" THEN [ampEnv EXCEPT !.release = value]
               ELSE ampEnv
  /\ lfo' = IF id = "lfo-rate" THEN [lfo EXCEPT !.rate = value]
            ELSE IF id = "lfo-pitch-depth" THEN [lfo EXCEPT !.pitchDepth = value]
            ELSE IF id = "lfo-filter-depth" THEN [lfo EXCEPT !.filterDepth = value]
            ELSE IF id = "lfo-amp-depth" THEN [lfo EXCEPT !.ampDepth = value \div PercentScale]
            ELSE lfo
  /\ filter' = IF id = "filter-cutoff" THEN [filter EXCEPT !.cutoff = value]
               ELSE IF id = "filter-resonance" THEN [filter EXCEPT !.resonance = value]
               ELSE IF id = "filter-env-amount" THEN [filter EXCEPT !.envAmount = value]
               ELSE IF id = "filter-attack" THEN [filter EXCEPT !.attack = value]
               ELSE IF id = "filter-decay" THEN [filter EXCEPT !.decay = value]
               ELSE filter
  /\ effects' =
       IF id = "distortion-drive" THEN [effects EXCEPT !.distortionDrive = value]
       ELSE IF id = "chorus-rate" THEN [effects EXCEPT !.chorusRate = value]
       ELSE IF id = "chorus-depth" THEN [effects EXCEPT !.chorusDepth = value \div PercentScale]
       ELSE IF id = "flanger-rate" THEN [effects EXCEPT !.flangerRate = value]
       ELSE IF id = "flanger-depth" THEN [effects EXCEPT !.flangerDepth = value \div PercentScale]
       ELSE IF id = "flanger-feedback"
         THEN [effects EXCEPT !.flangerFeedbackAmount = value \div PercentScale]
       ELSE IF id = "delay-time" THEN [effects EXCEPT !.delayTime = value]
       ELSE IF id = "delay-feedback" THEN [effects EXCEPT !.delayFeedback = value \div PercentScale]
       ELSE IF id = "delay-mix" THEN [effects EXCEPT !.delayMix = value \div PercentScale]
       ELSE IF id = "reverb-mix" THEN [effects EXCEPT !.reverbMix = value \div PercentScale]
       ELSE effects
  /\ nodes' =
       IF id = "distortion-drive" THEN Live("distortion", updateDistortionCurve(nodes, value))
       ELSE IF id = "chorus-rate"
         THEN Live("chorusLFO", [nodes EXCEPT !.chorusLFOFrequency = value])
       ELSE IF id = "chorus-depth"
         THEN Live("chorusWet", [nodes EXCEPT !.chorusWetGain = value \div PercentScale])
       ELSE IF id = "flanger-rate"
         THEN Live("flangerLFO", [nodes EXCEPT !.flangerLFOFrequency = value])
       ELSE IF id = "flanger-depth"
         THEN Live("flangerWet",
                   [nodes EXCEPT !.flangerWetGain = value \div PercentScale,
                                 !.flangerLFOGain =
                                    Num(2, 1000) + ((value \div PercentScale) * 3) \div 1000])
       ELSE IF id = "flanger-feedback"
         THEN Live("flangerFeedback",
                   [nodes EXCEPT !.flangerFeedbackGain = value \div PercentScale])
       ELSE IF id = "delay-time" THEN Live("delayNode", [nodes EXCEPT !.delayTime = value])
       ELSE IF id = "delay-feedback"
         THEN Live("delayFeedback", [nodes EXCEPT !.delayFeedbackGain = value \div PercentScale])
       ELSE IF id = "delay-mix"
         THEN Live("delayWet", [nodes EXCEPT !.delayWetGain = value \div PercentScale])
       ELSE IF id = "reverb-mix"
         THEN Live("reverbWet", [nodes EXCEPT !.reverbWetGain = value \div PercentScale])
       ELSE nodes
  /\ UNCHANGED <<uncaught, audioContext, masterGain, activeVoices, activeNotes, voices,
                 masterVolume, maxVolume, limiter, host>>

\* settings that store the delay feedback as it is kept, not as a percentage
getCurrentSettingsRawFeedback ==
  [osc1 |-> [wave |-> osc1.wave, detune |-> osc1.detune,
             level |-> Times(osc1.level, PercentScale)],
   osc2 |-> [wave |-> osc2.wave, detune |-> osc2.detune,
             level |-> Times(osc2.level, PercentScale)],
   noiseLevel |-> Times(noiseLevel, PercentScale),
   octave |-> octave,
   filter |-> filter,
   ampEnv |-> ampEnv,
   lfo |-> [wave |-> lfo.wave, rate |-> lfo.rate, pitchDepth |-> lfo.pitchDepth,
            filterDepth |-> lfo.filterDepth,
            ampDepth |-> Times(lfo.ampDepth, PercentScale)],
   effects |-> [delayTime |-> effects.delayTime,
                delayFeedback |-> effects.delayFeedback,
                delayMix |-> Times(effects.delayMix, PercentScale),
                reverbMix |-> Times(effects.reverbMix, PercentScale),
                distortionDrive |-> effects.distortionDrive,
                chorusRate |-> effects.chorusRate,
                chorusDepth |-> Times(effects.chorusDepth, PercentScale),
                flangerRate |-> effects.flangerRate,
                flangerDepth |-> Times(effects.flangerDepth, PercentScale),
                flangerFeedbackAmount |-> Times(effects.flangerFeedbackAmount, PercentScale)],
   masterVolume |-> Times(masterVolume, PercentScale),
   maxVolume |-> Times(maxVolume, PercentScale)]

\* PresetManager.getCurrentSettings: the ParameterModel in persisted form
getCurrentSettings ==
  [osc1 |-> [wave |-> osc1.wave, detune |-> osc1.detune,
             level |-> Times(osc1.level, PercentScale)],
   osc2 |-> [wave |-> osc2.wave, detune |-> osc2.detune,
             level |-> Times(osc2.level, PercentScale)],
   noiseLevel |-> Times(noiseLevel, PercentScale),
   octave |-> octave,
   filter |-> filter,
   ampEnv |-> ampEnv,
   lfo |-> [wave |-> lfo.wave, rate |-> lfo.rate, pitchDepth |-> lfo.pitchDepth,
            filterDepth |-> lfo.filterDepth,
            ampDepth |-> Times(lfo.ampDepth, PercentScale)],
   effects |-> [delayTime |-> effects.delayTime,
                delayFeedback |-> Times(effects.delayFeedback, PercentScale),
                delayMix |-> Times(effects.delayMix, PercentScale),
                reverbMix |-> Times(effects.reverbMix, PercentScale),
                distortionDrive |-> effects.distortionDrive,
                chorusRate |-> effects.chorusRate,
                chorusDepth |-> Times(effects.chorusDepth, PercentScale),
                flangerRate |-> effects.flangerRate,
                flangerDepth |-> Times(effects.flangerDepth, PercentScale),
                flangerFeedbackAmount |-> Times(effects.flangerFeedbackAmount, PercentScale)],
   masterVolume |-> Times(masterVolume, PercentScale),
   maxVolume |-> Times(maxVolume, PercentScale)]

\* the effects record loadPreset(preset) stores
LoadedEffects(preset) ==
  [delayTime |-> preset.effects.delayTime,
   delayFeedback |-> Over(preset.effects.delayFeedback, PercentScale),
   delayMix |-> Over(preset.effects.delayMix, PercentScale),
   reverbMix |-> Over(preset.effects.reverbMix, PercentScale),
   distortionDrive |-> OrDefault(preset.effects.distortionDrive, 0),
   chorusRate |-> OrDefault(preset.effects.chorusRate, Num(5, 10)),
   chorusDepth |-> Over(OrDefault(preset.effects.chorusDepth, 0), PercentScale),
   flangerRate |-> OrDefault(preset.effects.flangerRate, Num(3, 10)),
   flangerDepth |-> Over(OrDefault(preset.effects.flangerDepth, 0), PercentScale),
   flangerFeedbackAmount |->
     Over(OrDefault(preset.effects.flangerFeedbackAmount, Num(50, 1)), PercentScale)]

\* PresetManager.loadPreset(preset)
LoadPreset(preset) ==
  /\ osc1' = [wave |-> preset.osc1.wave, detune |-> preset.osc1.detune,
              level |-> Over(preset.osc1.level, PercentScale)]
  /\ osc2' = [wave |-> preset.osc2.wave, detune |-> preset.osc2.detune,
              level |-> Over(preset.osc2.level, PercentScale)]
  /\ noiseLevel' = Over(preset.noiseLevel, PercentScale)
  /\ octave' = preset.octave
  /\ filter' = preset.filter
  /\ ampEnv' = preset.ampEnv
  /\ lfo' = [wave |-> preset.lfo.wave, rate |-> preset.lfo.rate,
             pitchDepth |-> preset.lfo.pitchDepth,
             filterDepth |-> preset.lfo.filterDepth,
             ampDepth |-> Over(preset.lfo.ampDepth, PercentScale)]
  /\ effects' = LoadedEffects(preset)
  /\ masterVolume' = Over(preset.masterVolume, PercentScale)
  /\ maxVolume' = Over(OrDefault(preset.maxVolume, Num(100, 1)), PercentScale)
  /\ masterGain' = IF audioContext THEN masterVolume' * FactorScale ELSE masterGain
  /\ nodes' = IF audioContext
              THEN [nodes EXCEPT !.delayTime = effects'.delayTime,
                                 !.delayFeedbackGain = effects'.delayFeedback,
                                 !.delayWetGain = effects'.delayMix,
                                 !.reverbWetGain = effects'.reverbMix,
                                 !.limiterGain = maxVolume']
              ELSE nodes
  /\ UNCHANGED <<uncaught, audioContext, activeVoices, activeNotes, voices,
                 limiter, host>>

\* notes, timers, time, the release knob and the mod wheel
Next ==
  \/ InitAudioContext
  \/ \E note \in Notes, octaveOffset \in OctaveOffsets : PlayNote(note, octaveOffset)
  \/ \E noteId \in ManualIds : StopNote(noteId)
  \/ StopAllNotes
  \/ \E data \in NoteMessages \cup ModWheelMessages :
       HandleMIDIMessage(data[1], data[2], data[3])
  \/ \E h \in 1..MaxVoices : SafetyTimeoutFires(h)
  \/ \E h \in 1..MaxVoices : CleanupTimeoutFires(h)
  \/ \E d \in TickSteps : Tick(d)
  \/ \E value \in ReleaseKnobValues : UpdateKnobParameter("release", value)

Spec == Init /\ [][Next]_vars

\* notes, timers and time, with presets loaded and the master volume moved by
\* the slider and by controller 7
NextGain ==
  \/ InitAudioContext
  \/ \E note \in Notes, octaveOffset \in OctaveOffsets : PlayNote(note, octaveOffset)
  \/ \E noteId \in ManualIds : StopNote(noteId)
  \/ StopAllNotes
  \/ \E data \in NoteMessages \cup VolumeMessages :
       HandleMIDIMessage(data[1], data[2], data[3])
  \/ \E h \in 1..MaxVoices : SafetyTimeoutFires(h)
  \/ \E h \in 1..MaxVoices : CleanupTimeoutFires(h)
  \/ \E d \in TickSteps : Tick(d)
  \/ \E preset \in Presets : LoadPreset(preset)
  \/ \E value \in SliderValues : SetMasterVolume(value)

GainSpec == Init /\ [][NextGain]_vars

\* the compensation formula on its own: updateMasterGainForPolyphony is
\* handed every voice count, at some positions of the volume slider
\* an engine that is initialized, at one of the slider positions
PolyInit ==
  \E volume \in {v * (VolScale \div PercentScale) : v \in PolyVolumes} :
    /\ backend = TRUE
    /\ uncaught = FALSE
    /\ audioContext = TRUE
    /\ masterVolume = volume
    /\ masterGain = volume * FactorScale
    /\ maxVolume = Undefined
    /\ limiter = [gain |-> 0, ceiling |-> 0 - 3, lookahead |-> 0, release |-> 300]
    /\ effects = [delayTime |-> Num(3, 10), delayFeedback |-> Num(3, 10),
                  delayMix |-> 0, reverbMix |-> 0, distortionDrive |-> 0,
                  chorusRate |-> Num(5, 10), chorusDepth |-> 0,
                  flangerRate |-> Num(3, 10), flangerDepth |-> 0,
                  flangerFeedbackAmount |-> Num(5, 10)]
    /\ nodes = BuildNodes(NullNodes)
    /\ osc1 = [wave |-> "sawtooth", detune |-> 0, level |-> Num(1, 1)]
    /\ osc2 = [wave |-> "square", detune |-> 7, level |-> Num(5, 10)]
    /\ noiseLevel = 0
    /\ octave = 4
    /\ filter = [type |-> "lowpass", cutoff |-> Num(2000, 1), resonance |-> Num(1, 1),
                 envAmount |-> 0, attack |-> Num(1, 10), decay |-> Num(2, 10)]
    /\ ampEnv = [attack |-> 10, decay |-> 100, sustain |-> Num(7, 10), release |-> 300]
    /\ lfo = [wave |-> "sine", rate |-> Num(5, 1), pitchDepth |-> 0,
              filterDepth |-> 0, ampDepth |-> 0]
    /\ activeVoices = EmptyMap
    /\ activeNotes = EmptyMap
    /\ voices = <<>>

UpdateMasterGainForPolyphony(numVoices) ==
  /\ Commit(updateMasterGainForPolyphony(Cur, numVoices))
  /\ UNCHANGED <<params, host>>

PolyNext == \E numVoices \in 0..MaxPolyphony : UpdateMasterGainForPolyphony(numVoices)

PolySpec == PolyInit /\ [][PolyNext]_vars

\* time passes and due timers run, whatever else happens
Fairness ==
  /\ WF_vars(\E d \in TickSteps : Tick(d))
  /\ \A h \in 1..MaxVoices : WF_vars(SafetyTimeoutFires(h))
  /\ \A h \in 1..MaxVoices : WF_vars(CleanupTimeoutFires(h))

\* notes, timers and time only
NextLive ==
  \/ InitAudioContext
  \/ \E note \in Notes, octaveOffset \in OctaveOffsets : PlayNote(note, octaveOffset)
  \/ \E noteId \in ManualIds : StopNote(noteId)
  \/ StopAllNotes
  \/ \E data \in NoteMessages : HandleMIDIMessage(data[1], data[2], data[3])
  \/ \E h \in 1..MaxVoices : SafetyTimeoutFires(h)
  \/ \E h \in 1..MaxVoices : CleanupTimeoutFires(h)
  \/ \E d \in TickSteps : Tick(d)

LiveSpec == Init /\ [][NextLive]_vars /\ Fairness

\* the limiter: the ceiling slider is moved before and after initialize
NextLimiter ==
  \/ InitAudioContext
  \/ \E ceilingDb \in CeilingValues : SetLimiterCeiling(ceilingDb)

LimiterSpec == Init /\ [][NextLimiter]_vars

\* notes from the keyboard, timers and time, with a preset loaded, the
\* ceiling slider, some knobs and the reverb controller moved
NextChain ==
  \/ InitAudioContext
  \/ \E note \in Notes, octaveOffset \in OctaveOffsets : PlayNote(note, octaveOffset)
  \/ \E noteId \in ManualIds : StopNote(noteId)
  \/ \E h \in 1..MaxVoices : SafetyTimeoutFires(h)
  \/ \E h \in 1..MaxVoices : CleanupTimeoutFires(h)
  \/ \E d \in TickSteps : Tick(d)
  \/ \E preset \in Presets : LoadPreset(preset)
  \/ \E knob \in KnobSettings : UpdateKnobParameter(knob[1], knob[2])
  \/ \E ceilingDb \in ChainCeilings : SetLimiterCeiling(ceilingDb)
  \/ \E data \in ReverbMessages : HandleMIDIMessage(data[1], data[2], data[3])

ChainSpec == Init /\ [][NextChain]_vars

\* save: the current settings are stored as a custom preset, and that preset
\* is loaded again
SaveAndLoadPreset == LoadPreset(getCurrentSettings)

\* the built-in presets are loaded, before and after initialize
NextPreset ==
  \/ InitAudioContext
  \/ \E preset \in BuiltInPresets : LoadPreset(preset)

PresetSpec == Init /\ [][NextPreset]_vars

\* knobs are turned, the current settings are saved and loaded again, a custom
\* preset is loaded
NextSave ==
  \/ InitAudioContext
  \/ \E preset \in Presets : LoadPreset(preset)
  \/ \E knob \in PresetKnobs : UpdateKnobParameter(knob[1], knob[2])
  \/ SaveAndLoadPreset

SaveSpec == Init /\ [][NextSave]_vars

\* the controllers are moved, before and after initialize
NextControl ==
  \/ InitAudioContext
  \/ \E data \in ControlMessages : HandleMIDIMessage(data[1], data[2], data[3])

ControlSpec == Init /\ [][NextControl]_vars

\* a host with neither window.AudioContext nor window.webkitAudioContext
NoBackendInit ==
  /\ backend = FALSE
  /\ Constructed

\* every operation of the core, in that host
NextNoBackend ==
  \/ InitAudioContext
  \/ \E note \in Notes, octaveOffset \in OctaveOffsets : PlayNote(note, octaveOffset)
  \/ \E noteId \in ManualIds : StopNote(noteId)
  \/ StopAllNotes
  \/ \E data \in NoteMessages \cup ControlMessages :
       HandleMIDIMessage(data[1], data[2], data[3])
  \/ \E value \in SliderValues : SetMasterVolume(value)
  \/ \E ceilingDb \in ChainCeilings : SetLimiterCeiling(ceilingDb)
  \/ \E knob \in KnobSettings : UpdateKnobParameter(knob[1], knob[2])
  \/ \E preset \in Presets : LoadPreset(preset)

NoBackendSpec == NoBackendInit /\ [][NextNoBackend]_vars

\* the distortion knob is turned, before and after initialize
NextDrive ==
  \/ InitAudioContext
  \/ \E value \in DriveValues : UpdateKnobParameter("distortion-drive", value)

DriveSpec == Init /\ [][NextDrive]_vars

\* voices are built from the keyboard and over MIDI, with the filter envelope
\* and the LFO's amplitude modulation switched on and off
NextBuild ==
  \/ InitAudioContext
  \/ \E knob \in BuildKnobs : UpdateKnobParameter(knob[1], knob[2])
  \/ \E note \in Notes, octaveOffset \in OctaveOffsets : PlayNote(note, octaveOffset)
  \/ \E data \in NoteMessages : HandleMIDIMessage(data[1], data[2], data[3])

BuildSpec == Init /\ [][NextBuild]_vars

\* notes from the keyboard and over MIDI, with voice parameters edited by
\* knobs and controllers in between
NextEdit ==
  \/ InitAudioContext
  \/ \E note \in Notes, octaveOffset \in OctaveOffsets : PlayNote(note, octaveOffset)
  \/ \E noteId \in ManualIds : StopNote(noteId)
  \/ \E data \in NoteMessages \cup EditMessages :
       HandleMIDIMessage(data[1], data[2], data[3])
  \/ \E knob \in EditKnobs : UpdateKnobParameter(knob[1], knob[2])

EditSpec == Init /\ [][NextEdit]_vars

\* notes that are held for a while and released during the attack, the decay
\* or the sustain of their envelope
NextEnvelope ==
  \/ InitAudioContext
  \/ \E note \in Notes, octaveOffset \in OctaveOffsets : PlayNote(note, octaveOffset)
  \/ \E noteId \in ManualIds : StopNote(noteId)
  \/ \E data \in NoteMessages : HandleMIDIMessage(data[1], data[2], data[3])
  \/ \E h \in 1..MaxVoices : CleanupTimeoutFires(h)
  \/ \E d \in TickSteps : Tick(d)
  \/ \E d \in WaitSteps : Wait(d)

EnvelopeSpec == Init /\ [][NextEnvelope]_vars

\* the delay feedback is set by its knob and by loading presets
NextDelay ==
  \/ InitAudioContext
  \/ \E value \in FeedbackValues : UpdateKnobParameter("delay-feedback", value)
  \/ \E preset \in BuiltInPresets : LoadPreset(preset)

DelaySpec == Init /\ [][NextDelay]_vars

\* one note at a time, at every velocity and with several source levels
NextVelocity ==
  \/ InitAudioContext
  \/ \E knob \in LevelKnobs : UpdateKnobParameter(knob[1], knob[2])
  \/ \E note \in Notes, octaveOffset \in OctaveOffsets :
       Len(voices) = 0 /\ PlayNote(note, octaveOffset)
  \/ \E midiNote \in MidiNotes, velocity \in MidiVelocities :
       Len(voices) = 0 /\ HandleMIDIMessage(144, midiNote, velocity)

VelocitySpec == Init /\ [][NextVelocity]_vars

\* the limiter's sliders and the presets, before and after initialization
NextMakeup ==
  \/ InitAudioContext
  \/ \E gainDb \in MakeupValues : SetLimiterGain(gainDb)
  \/ \E lookahead \in LookaheadValues : SetLimiterLookahead(lookahead)
  \/ \E preset \in Presets : LoadPreset(preset)

MakeupSpec == Init /\ [][NextMakeup]_vars

\* notes played with the levels of all sources at 0
NextSilent ==
  \/ InitAudioContext
  \/ \E knob \in SilentKnobs : UpdateKnobParameter(knob[1], knob[2])
  \/ \E note \in Notes, octaveOffset \in OctaveOffsets : PlayNote(note, octaveOffset)
  \/ \E noteId \in ManualIds : StopNote(noteId)
  \/ \E h \in 1..MaxVoices : SafetyTimeoutFires(h)
  \/ \E h \in 1..MaxVoices : CleanupTimeoutFires(h)
  \/ \E d \in TickSteps : Tick(d)

SilentSpec == Init /\ [][NextSilent]_vars

\* the monolithic build driven over MIDI
NextMonolith ==
  \/ \E note \in MonolithNotes, velocity \in Velocities :
       SynthesizerHandleMIDIMessage(144, note, velocity)
  \/ \E note \in MonolithNotes : SynthesizerHandleMIDIMessage(128, note, 0)
  \/ \E d \in TickSteps : Tick(d)

MonolithSpec == Init /\ [][NextMonolith]_vars

\* MIDI messages of every type, on two channels
NextMessage ==
  \/ \E command \in MessageCommands, data1 \in MessageData, data2 \in Velocities :
       HandleMIDIMessage(command, data1, data2)
  \/ \E h \in 1..MaxVoices : SafetyTimeoutFires(h)
  \/ \E h \in 1..MaxVoices : CleanupTimeoutFires(h)
  \/ \E d \in TickSteps : Tick(d)

MessageSpec == Init /\ [][NextMessage]_vars

\* a key is pressed and released and the controllers of the table and one
\* outside it are moved, all within the time before the first timer is due
NextLifecycle ==
  \/ InitAudioContext
  \/ \E data \in LifecycleNotes \cup LifecycleControls :
       HandleMIDIMessage(data[1], data[2], data[3])

LifecycleSpec == Init /\ [][NextLifecycle]_vars

\* notes, timers and time, in a host where a disconnect call can throw
NextCleanup ==
  \/ InitAudioContext
  \/ \E note \in Notes, octaveOffset \in OctaveOffsets : PlayNote(note, octaveOffset)
  \/ \E noteId \in ManualIds : StopNote(noteId)
  \/ \E data \in NoteMessages : HandleMIDIMessage(data[1], data[2], data[3])
  \/ \E h \in 1..MaxVoices : SafetyTimeoutFires(h)
  \/ \E h \in 1..MaxVoices : CleanupTimeoutFires(h)
  \/ \E h \in 1..MaxVoices, throwsAt \in 1..MaxDisconnectCalls :
       CleanupTimeoutThrows(h, throwsAt)
  \/ \E d \in TickSteps : Tick(d)

CleanupSpec == Init /\ [][NextCleanup]_vars

\* one note is played, from the keyboard at any octave or over MIDI
NextFrequency ==
  \/ InitAudioContext
  \/ \E oct \in Octaves : UpdateKnobParameter("octave", oct)
  \/ \E note \in DOMAIN noteFrequencies, octaveOffset \in KeyOffsets :
       Len(voices) = 0 /\ PlayNote(note, octaveOffset)
  \/ \E midiNote \in AllMidiNotes :
       Len(voices) = 0 /\ HandleMIDIMessage(144, midiNote, 100)

FrequencySpec == Init /\ [][NextFrequency]_vars

(* ---------------- state descriptions used by the properties ---------------- *)
\* every entry of the curve computed from amount is the input it stands for
IdentityCurve(amount) ==
  \A i \in 0..(DistortionSamples - 1) : DistortionCurveEntry(amount, i) = SampledX(i)

\* x is value scaled linearly from 0..127 onto lo..hi
LinearOnto(x, lo, hi, value) == x = lo + value * ((hi - lo) \div MidiMaxValue)

\* ms is value scaled linearly from 0..127 onto 0..seconds, in whole ms
LinearOntoMs(ms, seconds, value) ==
  /\ ms * MidiMaxValue <= value * seconds * 1000
  /\ (ms + 1) * MidiMaxValue > value * seconds * 1000

\* every field that is stored as a percentage is a number from 0 to 1, so
\* from 0 to 100 in persisted form
PercentFieldsInRange ==
  \A x \in {osc1.level, osc2.level, noiseLevel, lfo.ampDepth,
             effects.delayFeedback, effects.delayMix, effects.reverbMix,
             effects.chorusDepth, effects.flangerDepth,
             effects.flangerFeedbackAmount, masterVolume, maxVolume} :
    IsNumber(x) /\ x >= 0 /\ x <= VolScale

\* the connections of the graph: those of the shared nodes and
\* voice.ampGain.connect(masterGain) of every voice not yet disconnected
Connections ==
  nodes.connections
    \cup (IF \E h \in DOMAIN voices : voices[h].ampGain.connected
          THEN {<<"voice.ampGain", "masterGain">>} ELSE {})

\* the nodes a signal that enters at one of the nodes in seen gets to
RECURSIVE ReachableFrom(_, _)
ReachableFrom(seen, edges) ==
  LET next == seen \cup {e[2] : e \in {d \in edges : d[1] \in seen}}
  IN IF next = seen THEN seen ELSE ReachableFrom(next, edges)

\* the graph with node m taken out
Without(m, edges) == {e \in edges : e[1] # m /\ e[2] # m}

\* the connect steps among the first n of steps, as edges
ConnectedAfter(steps, n) ==
  {<<steps[j].node, steps[j].to>> : j \in {i \in 1..n : steps[i].op = "connect"}}

AllStopAt(voice, left) ==
  /\ \A i \in DOMAIN voice.oscillators : voice.oscillators[i].stop = left
  /\ voice.lfoOsc.on => voice.lfoOsc.stop = left

\* the voice has neither been released nor force-stopped
Unreleased(voice) ==
  \/ voice.safetyTimeout >= 0
  \/ \E i \in DOMAIN voice.oscillators : voice.oscillators[i].stop = NotScheduled
  \/ voice.lfoOsc.on /\ voice.lfoOsc.stop = NotScheduled

\* the voice is the one stored in the active-voice map
InMap(h) ==
  /\ h \in DOMAIN voices
  /\ voices[h].noteId \in DOMAIN activeVoices
  /\ activeVoices[voices[h].noteId] = h

OneActiveVoice(noteId) ==
  /\ noteId \in DOMAIN activeVoices
  /\ {h \in DOMAIN voices : voices[h].noteId = noteId /\ Unreleased(voices[h])}
       = {activeVoices[noteId]}

NoteOn(midiNote) == \E velocity \in Velocities \ {0} : HandleMIDIMessage(144, midiNote, velocity)

NoteOff(midiNote) == HandleMIDIMessage(128, midiNote, 0)

(* ---------------- properties ---------------- *)

\* C1: after every playNote(id), and after every MIDI note-on for a note,
\* also when id was already held or is still releasing, the active-voice map
\* holds id and exactly one voice of that identity is unreleased: the one
\* stored in the map, never two.
C1_RetriggerLeavesOneVoice ==
  [][ /\ \A note \in Notes, octaveOffset \in OctaveOffsets :
           PlayNote(note, octaveOffset)
             => OneActiveVoice(ManualNoteId(note, octaveOffset))'
      /\ \A midiNote \in MidiNotes :
           NoteOn(midiNote) => OneActiveVoice(MidiNoteId(midiNote))'
    ]_vars

\* a key was pressed twice with no release between: the first voice was
\* force-stopped while held, the second is the one in the map
C1_Witness ==
  /\ Len(voices) >= 2
  /\ voices[1].noteId = voices[2].noteId
  /\ voices[1].midiNote = NoMidiNote
  /\ voices[1].ampGain.release = NotScheduled
  /\ ~Unreleased(voices[1])
  /\ activeVoices[voices[2].noteId] = 2
  /\ Unreleased(voices[2])

\* C2: a retrigger of an identity whose previous voice is mid-release cancels
\* that voice's release ramp and cleanup timer and stops its sources at once,
\* so that no older voice of the identity is still sounding next to the new one.
C2_RetriggerCancelsRelease ==
  [][ \A note \in Notes, octaveOffset \in OctaveOffsets :
        PlayNote(note, octaveOffset)
          => \A h \in DOMAIN voices :
               (/\ voices[h].noteId = ManualNoteId(note, octaveOffset)
                /\ voices[h].ampGain.release > 0)
                 => /\ AllStopAt(voices'[h], 0)
                    /\ voices'[h].cleanupTimeout < 0
    ]_vars

\* C3: playNote for an identity that is held force-stops the held voice: its
\* sources and its LFO are stopped at the current time, its safety and cleanup
\* timers are cancelled, and the map no longer holds it but the new voice.
C3_HeldVoiceForceStopped ==
  [][ \A note \in Notes, octaveOffset \in OctaveOffsets :
        LET noteId == ManualNoteId(note, octaveOffset)
        IN (PlayNote(note, octaveOffset) /\ noteId \in DOMAIN activeVoices)
             => LET old == activeVoices[noteId]
                IN /\ AllStopAt(voices'[old], 0)
                   /\ voices'[old].safetyTimeout = NoTimer
                   /\ voices'[old].cleanupTimeout = NoTimer
                   /\ activeVoices'[noteId] = Len(voices) + 1
                   /\ activeVoices'[noteId] # old
    ]_vars

\* a held voice with an LFO was superseded: sources and LFO stopped at once,
\* nothing pending, never released
C3_Witness ==
  /\ Len(voices) >= 2
  /\ voices[1].noteId = voices[2].noteId
  /\ voices[1].midiNote = NoMidiNote
  /\ voices[1].lfoOsc.on
  /\ voices[1].oscillators # <<>>
  /\ AllStopAt(voices[1], 0)
  /\ voices[1].ampGain.release = NotScheduled
  /\ voices[1].safetyTimeout = NoTimer
  /\ voices[1].cleanupTimeout = NoTimer
  /\ InMap(2)

\* C4: a MIDI note-on for a note that has an active voice force-stops that
\* voice: its sources are stopped at once, not at the end of a release, no
\* timer of it stays pending, and the map no longer holds it.
C4_MidiHeldVoiceForceStopped ==
  [][ \A midiNote \in MidiNotes :
        LET noteId == MidiNoteId(midiNote)
        IN (NoteOn(midiNote) /\ noteId \in DOMAIN activeVoices)
             => LET old == activeVoices[noteId]
                IN /\ AllStopAt(voices'[old], 0)
                   /\ voices'[old].safetyTimeout < 0
                   /\ voices'[old].cleanupTimeout < 0
                   /\ activeVoices'[noteId] # old
    ]_vars

\* C5: stopNote(id) and a MIDI note-off leave id out of the active-voice map,
\* and for an id that is not in the map (released a moment ago, or never
\* played) they change nothing at all: no ramp, no stop, no timer.
C5_StopNoteIdempotent ==
  [][ /\ \A noteId \in ManualIds :
           StopNote(noteId)
             => /\ noteId \notin DOMAIN activeVoices'
                /\ noteId \notin DOMAIN activeVoices => UNCHANGED vars
      /\ \A midiNote \in MidiNotes :
           NoteOff(midiNote)
             => /\ MidiNoteId(midiNote) \notin DOMAIN activeVoices'
                /\ MidiNoteId(midiNote) \notin DOMAIN activeVoices => UNCHANGED vars
    ]_vars

\* a manual and a MIDI voice have both been released and are still ringing
\* out: a second stopNote / note-off finds neither in the map
C5_Witness ==
  /\ \E h \in DOMAIN voices :
       /\ voices[h].midiNote = NoMidiNote
       /\ voices[h].cleanupTimeout > 0
       /\ voices[h].noteId \notin DOMAIN activeVoices
  /\ \E h \in DOMAIN voices :
       /\ voices[h].midiNote # NoMidiNote
       /\ voices[h].cleanupTimeout > 0
       /\ voices[h].noteId \notin DOMAIN activeVoices
       /\ voices[h].midiNote \notin DOMAIN activeNotes

\* C6: every voice is created with a safety timeout of the fixed ceiling; when
\* that timeout fires for a voice still in the active-voice map, the voice gets
\* the release of a note-off; and every voice that is in the map leaves it
\* again, note-off or not.
C6_EveryVoiceReleased ==
  /\ [][ \A h \in 1..MaxVoices :
           /\ (h \notin DOMAIN voices /\ h \in DOMAIN voices')
                => voices'[h].safetyTimeout = SafetyTimeoutMs
           /\ (SafetyTimeoutFires(h) /\ InMap(h))
                => /\ ~InMap(h)'
                   /\ voices'[h].ampGain.release = ampEnv.release
                   /\ AllStopAt(voices'[h], ampEnv.release)
                   /\ voices'[h].cleanupTimeout = ampEnv.release + CleanupMarginMs
        ]_vars
  /\ \A h \in 1..MaxVoices : InMap(h) ~> ~InMap(h)

\* a voice was released by its safety timeout
C6_Witness ==
  \E h \in DOMAIN voices :
    /\ voices[h].safetyTimeout = Fired
    /\ voices[h].ampGain.release # NotScheduled
    /\ ~InMap(h)

\* C7: stopNote (and a MIDI note-off) of an active identity removes it from
\* the map at once, schedules every source and the LFO to stop at now + release
\* and the cleanup at release + margin; and when the cleanup runs, the release
\* is over: the ramp has ended and every source has stopped.
C7_CleanupAfterRelease ==
  [][ /\ \A noteId \in ManualIds :
           (StopNote(noteId) /\ noteId \in DOMAIN activeVoices)
             => LET h == activeVoices[noteId]
                IN /\ noteId \notin DOMAIN activeVoices'
                   /\ AllStopAt(voices'[h], ampEnv.release)
                   /\ voices'[h].ampGain.release = ampEnv.release
                   /\ voices'[h].cleanupTimeout = ampEnv.release + CleanupMarginMs
      /\ \A midiNote \in MidiNotes :
           (NoteOff(midiNote) /\ MidiNoteId(midiNote) \in DOMAIN activeVoices)
             => LET h == activeVoices[MidiNoteId(midiNote)]
                IN /\ MidiNoteId(midiNote) \notin DOMAIN activeVoices'
                   /\ AllStopAt(voices'[h], ampEnv.release)
                   /\ voices'[h].ampGain.release = ampEnv.release
                   /\ voices'[h].cleanupTimeout = ampEnv.release + CleanupMarginMs
      /\ \A h \in DOMAIN voices :
           (voices[h].ampGain.connected /\ ~voices'[h].ampGain.connected)
             => /\ AllStopAt(voices[h], 0)
                /\ voices[h].ampGain.release = 0
    ]_vars

\* a voice with an LFO was released and its cleanup has run
C7_Witness ==
  \E h \in DOMAIN voices :
    /\ voices[h].lfoOsc.on
    /\ voices[h].oscillators # <<>>
    /\ voices[h].cleanupTimeout = Fired
    /\ ~voices[h].ampGain.connected
    /\ AllStopAt(voices[h], 0)

\* C8: right after stopAllNotes the active-voice map is empty and every voice
\* that was active has its safety timeout cancelled, its release ramp and the
\* stops of its sources scheduled, and its cleanup timer pending.
C8_StopAllNotesReleasesAll ==
  [][ StopAllNotes
        => /\ activeVoices' = EmptyMap
           /\ \A noteId \in DOMAIN activeVoices :
                LET h == activeVoices[noteId]
                IN /\ voices'[h].safetyTimeout = NoTimer
                   /\ voices'[h].ampGain.release = ampEnv.release
                   /\ AllStopAt(voices'[h], ampEnv.release)
                   /\ voices'[h].cleanupTimeout = ampEnv.release + CleanupMarginMs
    ]_vars

\* a manual and a MIDI voice created at different times were released in the
\* same instant, and nothing is left in the map
C8_Witness ==
  /\ activeVoices = EmptyMap
  /\ \E h1, h2 \in DOMAIN voices :
       /\ voices[h1].midiNote = NoMidiNote
       /\ voices[h2].midiNote # NoMidiNote
       /\ voices[h1].cleanupTimeout > 0
       /\ voices[h1].cleanupTimeout = voices[h2].cleanupTimeout
       /\ voices[h1].safetyTimeout = NoTimer
       /\ voices[h2].safetyTimeout = NoTimer
       /\ voices[h2].midiNote \in DOMAIN activeNotes

\* C9: whenever N >= 1 voices are active, the target of the master gain is
\* masterVolume x min(1, 0.5 + 0.5/sqrt(N)).
C9_MasterGainCompensated ==
  (audioContext /\ DOMAIN activeVoices # {})
    => masterGain = masterVolume * compensationFactor(Cardinality(DOMAIN activeVoices))

\* C10: the factor applied by updateMasterGainForPolyphony(N) is
\* min(1, 0.5 + 0.5/sqrt(N)) rounded down to 1/FactorScale: 1.0 at N = 1, about
\* 0.854 at N = 2, 0.75 at N = 4, about 0.667 at N = 9, non-increasing in N,
\* above 0.5 and at most 1.
C10_CompensationFormula ==
  [][ \A n \in 1..MaxPolyphony :
        (UpdateMasterGainForPolyphony(n) /\ masterVolume > 0)
          => LET f == masterGain' \div masterVolume
                 r == f - (FactorScale \div 2)
                 quarter == (FactorScale \div 2) * (FactorScale \div 2)
             IN /\ masterGain' = masterVolume * f
                /\ f > FactorScale \div 2
                /\ f <= FactorScale
                /\ r * r * n <= quarter
                /\ f < FactorScale => (r + 1) * (r + 1) * n > quarter
                /\ n = 1 => f = FactorScale
                /\ n = 2 => (f >= 8530 /\ f <= 8550)
                /\ n = 4 => f = 7500
                /\ n = 9 => (f >= 6660 /\ f <= 6680)
                /\ n > 1 => f <= compensationFactor(n - 1)
    ]_vars

\* the master gain holds the factor of nine voices
C10_Witness ==
  /\ masterVolume > 0
  /\ masterGain > masterVolume * 6660
  /\ masterGain < masterVolume * 6680

\* C11: every entry of the hard clipper's curve has a magnitude of at most
\* 10^(ceiling/20), and the curve that is installed is the one of the ceiling
\* that is configured, whether the ceiling was set before or after initialize.
C11_ClipperWithinCeiling ==
  audioContext =>
    /\ nodes.hardClipperCurve = DbToLinear(limiter.ceiling)
    /\ \A i \in 0..(ClipperSamples - 1) :
         LET entry == HardClipperCurveEntry(nodes.hardClipperCurve, i)
             magnitude == IF entry.num < 0 THEN 0 - entry.num ELSE entry.num
         IN magnitude * VolScale <= DbToLinear(limiter.ceiling) * entry.den

\* the ceiling was moved to -6 dB: the installed curve clamps the lowest input
\* to about -0.5 and leaves the middle of the range alone
C11_Witness ==
  /\ audioContext
  /\ limiter.ceiling = 0 - 60
  /\ nodes.hardClipperCurve > Num(50, 100)
  /\ nodes.hardClipperCurve < Num(51, 100)
  /\ HardClipperCurveEntry(nodes.hardClipperCurve, 0).num = 0 - nodes.hardClipperCurve
  /\ HardClipperCurveEntry(nodes.hardClipperCurve, ClipperSamples \div 2 + 1)
       = [num |-> 2, den |-> ClipperSamples]

C13_BuiltInPresetRoundTrip ==
  [][ \A P \in BuiltInPresets :
        LoadPreset(P)
          => LET S == getCurrentSettings'
             IN /\ S.osc1 = P.osc1
                /\ S.osc2 = P.osc2
                /\ S.noiseLevel = P.noiseLevel
                /\ S.octave = P.octave
                /\ S.filter = P.filter
                /\ S.ampEnv = P.ampEnv
                /\ S.lfo = P.lfo
                /\ \A field \in DOMAIN P.effects :
                     P.effects[field] # Undefined => S.effects[field] = P.effects[field]
                /\ S.masterVolume = P.masterVolume
    ]_vars

\* "Reese Bass" is loaded: the percentages are kept as decimals and come back
\* as the percentages of the preset
C13_Witness ==
  /\ osc1.detune = 0 - 7
  /\ effects.delayFeedback = Num(25, 100)
  /\ effects.chorusDepth = Num(30, 100)
  /\ masterVolume = Num(55, 100)
  /\ getCurrentSettings.effects.delayFeedback = Num(25, 1)
  /\ getCurrentSettings.effects.chorusDepth = Num(30, 1)
  /\ getCurrentSettings.masterVolume = Num(55, 1)

\* C14: for every state of the parameters whose percentage fields are within
\* 0..100 in persisted form, the end points included, saving the settings with
\* getCurrentSettings and loading them with loadPreset leaves every parameter
\* at the value it had.
C14_SaveLoadRestores ==
  [][ (SaveAndLoadPreset /\ PercentFieldsInRange) => UNCHANGED params ]_vars

\* C15: when the effects chain is initialized, loadPreset leaves every live
\* effect parameter at the value it has just loaded: delay time, feedback and
\* mix, reverb mix, the distortion curve, chorus rate and depth, flanger rate,
\* depth and feedback, and the master gain.
C15_LoadPresetPushesToNodes ==
  [][ \A P \in BuiltInPresets :
        (LoadPreset(P) /\ audioContext)
          => /\ nodes'.delayTime = effects'.delayTime
             /\ nodes'.delayFeedbackGain = effects'.delayFeedback
             /\ nodes'.delayWetGain = effects'.delayMix
             /\ nodes'.reverbWetGain = effects'.reverbMix
             /\ nodes'.distortionCurve = effects'.distortionDrive
             /\ nodes'.chorusLFOFrequency = effects'.chorusRate
             /\ nodes'.chorusWetGain = effects'.chorusDepth
             /\ nodes'.flangerLFOFrequency = effects'.flangerRate
             /\ nodes'.flangerWetGain = effects'.flangerDepth
             /\ nodes'.flangerFeedbackGain = effects'.flangerFeedbackAmount
             /\ masterGain' = masterVolume' * FactorScale
    ]_vars

C17_FrequencyResolution ==
  [][ /\ \A N \in DOMAIN noteFrequencies, O \in Octaves :
           SameFrequency(getFrequency(N, O),
                         TimesPowerOfTwo(getFrequency(N, 4), O - 4))
      /\ \A note \in DOMAIN noteFrequencies, octaveOffset \in KeyOffsets :
           (Len(voices) = 0 /\ PlayNote(note, octaveOffset))
             => /\ SameFrequency(voices'[1].frequency,
                                 TimesPowerOfTwo(getFrequency(note, 4),
                                                 octave - 4 + octaveOffset))
                /\ (note = "A" /\ octave = 4 /\ octaveOffset = 0)
                     => SameFrequency(voices'[1].frequency,
                                      midiNoteFrequency(ConcertPitchNote))
      /\ (Len(voices) = 0 /\ HandleMIDIMessage(144, 69, 100))
           => voices'[1].frequency = Hz(Num(440, 1))
      /\ (Len(voices) = 0 /\ HandleMIDIMessage(144, 81, 100))
           => voices'[1].frequency = Hz(Num(880, 1))
    ]_vars

\* the key A is held at octave 4 and sounds at the frequency of MIDI note 69
C17_Witness ==
  /\ Len(voices) = 1
  /\ voices[1].noteId = ManualNoteId("A", 0)
  /\ octave = 4
  /\ SameFrequency(voices[1].frequency, midiNoteFrequency(ConcertPitchNote))
  /\ voices[1].frequency = Hz(Num(440, 1))

\* C18: the effects chain is built exactly once. The first initialize(), from
\* the first user interaction or from the first note played before it, creates
\* the shared nodes and their connections; before it there are none; every
\* later step (initialize again, notes, timers, preset load, knob, ceiling
\* slider, controller) leaves the node objects, the set of shared nodes and
\* their connections as they are.
C18_ChainBuiltOnce ==
  [][ /\ (~audioContext
           /\ (InitAudioContext
                 \/ \E note \in Notes, octaveOffset \in OctaveOffsets :
                      PlayNote(note, octaveOffset)))
           => /\ audioContext'
              /\ nodes.generation = 0 /\ nodes.created = {} /\ nodes.connections = {}
              /\ nodes'.generation = 1
              /\ nodes'.created = BuildNodes(NullNodes).created
              /\ nodes'.connections = BuildNodes(NullNodes).connections
              /\ nodes'.connections # {}
      /\ audioContext
           => /\ audioContext'
              /\ nodes'.generation = nodes.generation
              /\ nodes'.created = nodes.created
              /\ nodes'.connections = nodes.connections
      /\ ~audioContext' => nodes' = NullNodes
    ]_vars

\* the chain of the first initialize is still the one in use after a second
\* note, a preset load and a turn of the distortion knob
C18_Witness ==
  /\ audioContext
  /\ nodes.generation = 1
  /\ Len(voices) >= 2
  /\ maxVolume = Num(1, 1)
  /\ nodes.distortionCurve = Num(20, 1)

\* C19: in a host without an audio backend no operation of the core ends in
\* an uncaught exception; the core stays uninitialized, no voice is created
\* and the maps of active voices and active notes stay empty.
C19_NoBackendNothingThrows ==
  ~backend =>
    /\ ~uncaught
    /\ ~audioContext
    /\ nodes = NullNodes
    /\ voices = <<>>
    /\ DOMAIN activeVoices = {}
    /\ DOMAIN activeNotes = {}

\* C20: the distortion curve computed for drive 0 is the identity, y = x at
\* every one of its samples x, and the curve initialize installs is that
\* curve: after initialize, and after the distortion knob is set to 0 with the
\* chain built, every entry of the curve of the distortion node equals its x.
C20_DriveZeroIdentity ==
  [][ /\ (~audioContext /\ InitAudioContext)
           => /\ nodes'.distortionCurve = 0
              /\ IdentityCurve(nodes'.distortionCurve)
      /\ (audioContext /\ UpdateKnobParameter("distortion-drive", 0))
           => /\ nodes'.distortionCurve = 0
              /\ IdentityCurve(nodes'.distortionCurve)
    ]_vars

\* the chain is built, the knob is at 0, and the curve of the distortion node
\* runs from -1 at its first sample through 0 in the middle
C20_Witness ==
  /\ audioContext
  /\ effects.distortionDrive = 0
  /\ nodes.distortionCurve = 0
  /\ DistortionCurveEntry(nodes.distortionCurve, 0)
       = [num |-> 0 - DistortionSamples, den |-> DistortionSamples]
  /\ DistortionCurveEntry(nodes.distortionCurve, DistortionSamples \div 2).num = 0
  /\ DistortionCurveEntry(nodes.distortionCurve, DistortionSamples - 1).num
       = DistortionSamples - 2

\* C21: no voice's amplitude gain stays connected to the master gain for
\* ever, whichever way the voice ends: the cleanup timer is the only thing
\* that disconnects a voice, so a voice whose amplitude gain is connected is
\* either still in the active-voice map (its note-off or its safety timeout
\* is to come) or has its cleanup timer pending.
C21_EveryVoiceDisconnected ==
  \A h \in DOMAIN voices :
    voices[h].ampGain.connected => (InMap(h) \/ voices[h].cleanupTimeout >= 0)

\* C22: a voice that is torn down early has its timers cancelled. In every
\* state a pending safety timer belongs to the voice stored in the map under
\* its identity; a safety timer that fires finds its own voice there, and a
\* timer callback (safety or cleanup) changes no voice but the one it was
\* registered for, so never the voice that replaced it.
C22_TimersCancelledOnTeardown ==
  /\ [](\A h \in DOMAIN voices : voices[h].safetyTimeout >= 0 => InMap(h))
  /\ [][ \A h \in 1..MaxVoices :
           /\ SafetyTimeoutFires(h)
                => /\ InMap(h)
                   /\ \A g \in DOMAIN voices \ {h} : voices'[g] = voices[g]
           /\ CleanupTimeoutFires(h)
                => \A g \in DOMAIN voices \ {h} : voices'[g] = voices[g]
        ]_vars

\* an identity was retriggered while held: the old voice lost its timers, and
\* the safety timeout that fired later released the replacement it belongs to
C22_Witness ==
  \E h, g \in DOMAIN voices :
    /\ h < g
    /\ voices[h].noteId = voices[g].noteId
    /\ voices[h].safetyTimeout = NoTimer
    /\ voices[h].cleanupTimeout = NoTimer
    /\ voices[h].ampGain.release = NotScheduled
    /\ AllStopAt(voices[h], 0)
    /\ voices[g].safetyTimeout = Fired
    /\ voices[g].ampGain.release # NotScheduled

\* C23: in the construction of a voice every node is created and connected
\* before any envelope is scheduled: after a step that schedules automation
\* no node is created or connected any more, and the node it schedules on
\* (the filter, the amplitude gain) is by then connected through to the
\* master gain.
C23_ConnectedBeforeScheduled ==
  \A h \in DOMAIN voices :
    LET steps == ConstructionSteps(voices[h])
    IN \A k \in DOMAIN steps :
         steps[k].op = "schedule"
           => /\ \A j \in DOMAIN steps : j > k => steps[j].op = "schedule"
              /\ "masterGain" \in ReachableFrom({steps[k].node},
                                                ConnectedAfter(steps, k - 1))

\* C24: a voice keeps the parameters it was created with. An edit of a voice
\* parameter, by a knob or by a controller, changes nothing of a voice that
\* exists, released or not; and it changes nothing of what a note-off of a
\* sounding voice then schedules for that voice: the release ramp, the stops
\* of the sources and the cleanup are the same as without the edit.
C24_VoiceSnapshotsParameters ==
  [][ ((\E knob \in EditKnobs : UpdateKnobParameter(knob[1], knob[2]))
        \/ (\E data \in EditMessages : HandleMIDIMessage(data[1], data[2], data[3])))
        => /\ voices' = voices
           /\ \A noteId \in DOMAIN activeVoices :
                (stopNote(Cur, noteId))'.voices = stopNote(Cur, noteId).voices
           /\ \A midiNote \in DOMAIN activeNotes :
                (handleMIDINoteOff(Cur, midiNote))'.voices
                  = handleMIDINoteOff(Cur, midiNote).voices
    ]_vars

\* C25: in the deferred cleanup of a voice an exception thrown by one
\* disconnect call does not keep the other disconnect calls from running: the
\* amplitude gain, the filter and every per-source gain node other than the
\* one whose call threw are disconnected when the callback has run.
C25_CleanupSurvivesException ==
  [][ \A h \in 1..MaxVoices, throwsAt \in 1..MaxDisconnectCalls :
        CleanupTimeoutThrows(h, throwsAt)
          => /\ throwsAt # 1 => ~voices'[h].ampGain.connected
             /\ throwsAt # 2 => ~voices'[h].filter.connected
             /\ \A i \in DOMAIN voices[h].oscillators :
                  throwsAt # 2 + i => ~voices'[h].oscillators[i].connected
    ]_vars
\* the voices and map entries of every identity other than noteId are the
\* same after the step as before it
OthersUnchanged(noteId) ==
  /\ \A h \in DOMAIN voices :
       voices[h].noteId # noteId => voices'[h] = voices[h]
  /\ \A id \in DOMAIN activeVoices \ {noteId} :
       id \in DOMAIN activeVoices' /\ activeVoices'[id] = activeVoices[id]
  /\ \A id \in DOMAIN activeVoices' \ {noteId} : id \in DOMAIN activeVoices

\* C26: voices are independent. playNote(id), stopNote(id), a retrigger of
\* id, a MIDI note-on or note-off of id, a timer callback of id's voice and a
\* cleanup of id's voice in which a disconnect throws leave every voice of
\* every other identity unchanged: its map entry, its sources, its scheduled
\* envelope and stops, and its pending timers.
C26_VoicesIndependent ==
  [][ /\ \A note \in Notes, octaveOffset \in OctaveOffsets :
           PlayNote(note, octaveOffset)
             => OthersUnchanged(ManualNoteId(note, octaveOffset))
      /\ \A noteId \in ManualIds : StopNote(noteId) => OthersUnchanged(noteId)
      /\ \A data \in NoteMessages :
           HandleMIDIMessage(data[1], data[2], data[3])
             => OthersUnchanged(MidiNoteId(data[2]))
      /\ \A h \in DOMAIN voices :
           ( \/ SafetyTimeoutFires(h)
             \/ CleanupTimeoutFires(h)
             \/ \E throwsAt \in 1..MaxDisconnectCalls : CleanupTimeoutThrows(h, throwsAt) )
             => OthersUnchanged(voices[h].noteId)
    ]_vars

\* one voice was released and its cleanup callback has run while a voice of
\* another identity, older than the release, is still held
C26_Witness ==
  \E h \in DOMAIN voices, g \in DOMAIN voices :
    /\ voices[h].noteId # voices[g].noteId
    /\ voices[h].cleanupTimeout = Fired
    /\ InMap(g)
    /\ voices[g].ampGain.release = NotScheduled
    /\ voices[g].safetyTimeout > 0
    /\ voices[g].safetyTimeout < SafetyTimeoutMs
    /\ \A i \in DOMAIN voices[g].oscillators :
         voices[g].oscillators[i].stop = NotScheduled
\* the gain of a held voice follows attack, decay and sustain
OnSchedule(h) ==
  LET g == voices[h].ampGain
      age == Age(voices[h])
  IN /\ age = 0 /\ g.attack > 0 => GainValue(voices[h]) = 0
     /\ age = g.attack => GainValue(voices[h]) = VolScale
     /\ age < g.attack => GainValue(voices[h]) < VolScale
     /\ age >= g.attack + g.decay => GainValue(voices[h]) = g.sustain
     /\ age > g.attack /\ age < g.attack + g.decay
          => GainValue(voices[h]) >= g.sustain /\ GainValue(voices[h]) <= VolScale

\* C27: the amplitude envelope follows the ADSR schedule: the gain of a held
\* voice is 0 at note-on, 1.0 at attackEnd, the sustain level from decayEnd
\* on; at note-off the gain ramps from the value it has at that moment (also
\* in the middle of the attack or of the decay) over the release time, and is
\* 0 when the release time has passed.
C27_EnvelopeFollowsSchedule ==
  /\ [](\A h \in DOMAIN voices :
          /\ Held(h) => OnSchedule(h)
          /\ voices[h].ampGain.release = 0 => voices[h].ampGain.value = 0)
  /\ [][ \A h \in DOMAIN voices :
           (voices[h].ampGain.release = NotScheduled
              /\ voices'[h].ampGain.release # NotScheduled)
             => /\ voices'[h].ampGain.value = GainValue(voices[h])
                /\ voices'[h].ampGain.release = ampEnv.release
       ]_vars

\* a note was released in the middle of its attack: its release ramp starts
\* below the sustain level
C27_Witness ==
  \E h \in DOMAIN voices :
    /\ voices[h].ampGain.release > 0
    /\ voices[h].ampGain.value > 0
    /\ voices[h].ampGain.value < voices[h].ampGain.sustain
\* the optional fields of a preset's effects
OptionalEffectFields ==
  {"distortionDrive", "chorusRate", "chorusDepth", "flangerRate", "flangerDepth",
   "flangerFeedbackAmount"}

\* the value loadPreset falls back to, as the ParameterModel keeps it
EffectDefault(field) ==
  IF field = "chorusRate" THEN Num(5, 10)
  ELSE IF field = "flangerRate" THEN Num(3, 10)
  ELSE IF field = "flangerFeedbackAmount" THEN Num(5, 10)
  ELSE 0

\* C28: loading a preset that lacks an optional effect field falls back to a
\* default for that field: after loadPreset no effects field of the
\* ParameterModel is undefined or NaN, and no undefined or NaN value has been
\* written to a parameter of an audio node.
C28_MissingEffectFieldsDefault ==
  /\ [](/\ \A field \in DOMAIN effects : IsNumber(effects[field])
        /\ IsNumber(masterVolume)
        /\ IsNumber(nodes.delayTime) /\ IsNumber(nodes.delayFeedbackGain)
        /\ IsNumber(nodes.delayWetGain) /\ IsNumber(nodes.reverbWetGain)
        /\ IsNumber(nodes.limiterGain) /\ IsNumber(masterGain))
  /\ [][ \A preset \in BuiltInPresets :
           LoadPreset(preset)
             => \A field \in OptionalEffectFields :
                  preset.effects[field] = Undefined
                    => effects'[field] = EffectDefault(field)
       ]_vars

\* a preset without the optional effect fields has been loaded into a running
\* engine
C28_Witness ==
  \E preset \in BuiltInPresets :
    /\ \A field \in OptionalEffectFields : preset.effects[field] = Undefined
    /\ effects = LoadedEffects(preset)
    /\ osc1.wave = preset.osc1.wave
    /\ masterVolume = Over(preset.masterVolume, PercentScale)
    /\ audioContext
    /\ nodes.delayFeedbackGain = effects.delayFeedback
\* C29: the delay feedback gain is strictly below 1 in every reachable state,
\* after any sequence of knob changes and preset loads, both in the
\* ParameterModel and on the gain node of the loop delayNode -> delayFeedback
\* -> delayNode.
C29_FeedbackBelowOne ==
  /\ effects.delayFeedback < VolScale
  /\ "delayFeedback" \in nodes.created => nodes.delayFeedbackGain < VolScale
\* the configured level of a source
SourceLevel(kind) ==
  IF kind = "osc1" THEN osc1.level
  ELSE IF kind = "osc2" THEN osc2.level
  ELSE noiseLevel

\* C30: on the MIDI path the gain of every source (oscillator 1, oscillator
\* 2, noise) is its configured level times velocity/127; velocity 127 gives
\* the sources the keyboard path gives, and the next lower velocity never
\* gives a larger gain (so the gain is non-decreasing over 1..127).
C30_VelocityScalesSourceGains ==
  [][ \A midiNote \in MidiNotes, velocity \in MidiVelocities :
        (Len(voices) = 0 /\ HandleMIDIMessage(144, midiNote, velocity))
          => LET sources == voices'[1].oscillators
                 Lower(w) == (handleMIDINoteOn(Cur, midiNote, w)).voices[1].oscillators
             IN /\ Len(voices') = 1
                /\ {sources[i].kind : i \in DOMAIN sources}
                     = {kind \in {"osc1", "osc2", "noise"} : SourceLevel(kind) > 0}
                /\ \A i \in DOMAIN sources :
                     sources[i].gain * MidiMaxValue
                       = SourceLevel(sources[i].kind) * velocity
                /\ velocity = MidiMaxValue
                     => \E note \in Notes, octaveOffset \in OctaveOffsets :
                          sources = (playNote(Cur, note, octaveOffset)).voices[1].oscillators
                /\ \A i \in DOMAIN sources :
                     velocity > 1 => Lower(velocity - 1)[i].gain <= sources[i].gain
    ]_vars

\* a MIDI note below full velocity sounds with all three sources, each
\* quieter than its configured level
C30_Witness ==
  /\ Len(voices) = 1
  /\ voices[1].midiNote \in MidiNotes
  /\ Len(voices[1].oscillators) = 3
  /\ \A i \in DOMAIN voices[1].oscillators :
       /\ voices[1].oscillators[i].gain > 0
       /\ voices[1].oscillators[i].gain < SourceLevel(voices[1].oscillators[i].kind)
\* C31: the attack of the limiter's compressor is max(1 ms, configured
\* lookahead) in every state after initialization, whether the lookahead was
\* set before or after initialization.
C31_AttackIsLookaheadWithFloor ==
  "limiterCompressor" \in nodes.created
    => nodes.compressorAttack
         = (IF limiter.lookahead > MinAttackUs THEN limiter.lookahead ELSE MinAttackUs)
\* C32: the input makeup-gain stage of the limiter holds the dB-to-linear
\* conversion of the configured limiter gain in every state after
\* initialization: limiterGain.gain = 10^(limiter.gain / 20), after any
\* sequence of setLimiterGain and loadPreset calls.
C32_MakeupGainIsConfiguredGain ==
  "limiterGain" \in nodes.created
    => nodes.limiterGain = DbToLinear(limiter.gain)
\* the keys of the keyboard and MIDI notes that have the same identity
IdentityCollisions ==
  {c \in (DOMAIN noteFrequencies) \X KeyOffsets \X AllMidiNotes :
     ManualNoteId(c[1], c[2]) = MidiNoteId(c[3])}

\* a voice made by playNote / by handleMIDINoteOn
IsManual(voice) == voice.midiNote = NoMidiNote

\* the step leaves every voice of the given kind, and its map entries, alone
KindUnchanged(manual) ==
  /\ \A h \in DOMAIN voices :
       IsManual(voices[h]) = manual => voices'[h] = voices[h]
  /\ \A id \in DOMAIN activeVoices :
       IsManual(voices[activeVoices[id]]) = manual
         => id \in DOMAIN activeVoices' /\ activeVoices'[id] = activeVoices[id]

\* C33: manual identities (noteName_octaveOffset) and MIDI identities
\* (midi_noteNumber) share one key space without colliding: no key of the
\* keyboard and MIDI note have the same identity, every entry of the voice
\* map holds a voice made under that identity, a manual note-on or note-off
\* never replaces or releases a MIDI voice and a MIDI note-on or note-off
\* never a manual one, and a note-off releases the voice the matching note-on
\* stored.
C33_IdentitiesDoNotCollide ==
  /\ [](/\ IdentityCollisions = {}
        /\ \A id \in DOMAIN activeVoices :
             LET voice == voices[activeVoices[id]]
             IN /\ voice.noteId = id
                /\ IsManual(voice) => id \in ManualIds
                /\ ~IsManual(voice) => id = MidiNoteId(voice.midiNote)
        /\ \A midiNote \in DOMAIN activeNotes :
             activeNotes[midiNote] = MidiNoteId(midiNote))
  /\ [][ /\ \A note \in Notes, octaveOffset \in OctaveOffsets :
              PlayNote(note, octaveOffset)
                => /\ KindUnchanged(FALSE)
                   /\ activeNotes' = activeNotes
                   /\ IsManual(voices'[activeVoices'[ManualNoteId(note, octaveOffset)]])
         /\ \A noteId \in ManualIds :
              StopNote(noteId)
                => /\ KindUnchanged(FALSE)
                   /\ activeNotes' = activeNotes
                   /\ noteId \in DOMAIN activeVoices
                        => /\ IsManual(voices[activeVoices[noteId]])
                           /\ voices'[activeVoices[noteId]].ampGain.release # NotScheduled
         /\ \A data \in NoteMessages :
              HandleMIDIMessage(data[1], data[2], data[3])
                => /\ KindUnchanged(TRUE)
                   /\ (data[2] \in DOMAIN activeNotes
                         /\ activeNotes[data[2]] \in DOMAIN activeVoices)
                        => LET h == activeVoices[activeNotes[data[2]]]
                           IN /\ voices[h].midiNote = data[2]
                              /\ voices'[h].ampGain.release # NotScheduled
       ]_vars

\* a key and a MIDI note were held together and the MIDI note was released
\* by its note-off while the key is still down
C33_Witness ==
  \E h \in DOMAIN voices, g \in DOMAIN voices :
    /\ InMap(h) /\ IsManual(voices[h])
    /\ voices[h].ampGain.release = NotScheduled
    /\ voices[h].safetyTimeout > 0
    /\ ~IsManual(voices[g])
    /\ voices[g].noteId \notin DOMAIN activeVoices
    /\ voices[g].ampGain.release # NotScheduled
    /\ voices[g].cleanupTimeout > 0
    /\ DOMAIN activeNotes = {}
\* no source has a level above 0
AllLevelsZero == osc1.level = 0 /\ osc2.level = 0 /\ noiseLevel = 0

\* C34: with both oscillator levels and the noise level at 0 playNote raises
\* no error: it makes a voice without sources (filter and amplitude envelope
\* only), stores it in the active-voice map with its safety timeout; a later
\* stopNote releases it and the cleanup disconnects it like any other voice.
C34_SilentVoiceLifecycle ==
  /\ [](~uncaught)
  /\ [][ /\ \A note \in Notes, octaveOffset \in OctaveOffsets :
              (AllLevelsZero /\ PlayNote(note, octaveOffset))
                => LET noteId == ManualNoteId(note, octaveOffset)
                   IN /\ noteId \in DOMAIN activeVoices'
                      /\ activeVoices'[noteId] = Len(voices) + 1
                      /\ LET voice == voices'[activeVoices'[noteId]]
                         IN /\ voice.oscillators = <<>>
                            /\ voice.filter.connected
                            /\ voice.ampGain = NewAmpGain
                            /\ voice.safetyTimeout = SafetyTimeoutMs
                            /\ voice.cleanupTimeout = NoTimer
         /\ \A noteId \in ManualIds :
              (noteId \in DOMAIN activeVoices /\ StopNote(noteId))
                => LET h == activeVoices[noteId]
                   IN voices[h].oscillators = <<>>
                        => /\ noteId \notin DOMAIN activeVoices'
                           /\ voices'[h].safetyTimeout = NoTimer
                           /\ voices'[h].ampGain.release = ampEnv.release
                           /\ voices'[h].ampGain.value = GainValue(voices[h])
                           /\ voices'[h].cleanupTimeout = ampEnv.release + CleanupMarginMs
         /\ \A h \in DOMAIN voices :
              (voices[h].oscillators = <<>> /\ CleanupTimeoutFires(h))
                => /\ ~voices'[h].ampGain.connected
                   /\ ~voices'[h].filter.connected
       ]_vars

\* a voice without sources was played, released and disconnected
C34_Witness ==
  \E h \in DOMAIN voices :
    /\ voices[h].oscillators = <<>>
    /\ voices[h].noteId \notin DOMAIN activeVoices
    /\ voices[h].cleanupTimeout = Fired
    /\ voices[h].ampGain.release = 0
    /\ ~voices[h].ampGain.connected
    /\ ~voices[h].filter.connected
\* C35: the MIDI bookkeeping agrees with the voice map: in every reachable
\* state activeNotes maps MIDI note m to an identity exactly when the
\* active-voice map holds a voice under midi_m, after any interleaving of MIDI
\* note-on and note-off, safety timeouts, stopNote and stopAllNotes.
C35_ActiveNotesMatchVoiceMap ==
  \A midiNote \in MidiNotes :
    midiNote \in DOMAIN activeNotes <=> MidiNoteId(midiNote) \in DOMAIN activeVoices
\* C36: in the monolithic Synthesizer every voice made by handleMIDINoteOn
\* can be reached through activeVoices and activeNotes until it is released,
\* for any sequence of MIDI note-on and note-off messages: a voice whose
\* sources run with no stop scheduled is the one the maps hold for its note.
C36_MonolithVoicesReachable ==
  \A h \in DOMAIN voices :
    (\E i \in DOMAIN voices[h].oscillators :
       voices[h].oscillators[i].stop = NotScheduled)
      => /\ voices[h].midiNote \in DOMAIN activeNotes
         /\ activeNotes[voices[h].midiNote] = voices[h].noteId
         /\ voices[h].noteId \in DOMAIN activeVoices
         /\ activeVoices[voices[h].noteId] = h
\* the message type of a status byte: command & 0xf0
MessageType(command) == (command \div 16) * 16

\* a note-on with velocity 0 and a note-off for the same note, on any
\* channels, are the same step, and only a note-on with a velocity above 0
\* adds a voice
NoteOnZeroIsNoteOff ==
  /\ \A on \in {c \in MessageCommands : MessageType(c) = 144},
        off \in {c \in MessageCommands : MessageType(c) = 128},
        note \in MessageData :
       HandleMIDIMessage(on, note, 0) <=> HandleMIDIMessage(off, note, 0)
  /\ \A command \in MessageCommands, note \in MessageData, velocity \in Velocities :
       HandleMIDIMessage(command, note, velocity)
         => (Len(voices') = Len(voices) + 1
               <=> (MessageType(command) = 144 /\ velocity > 0))

\* C37 (as stated): a note-on (0x90) with velocity 0 is treated exactly like
\* a note-off (0x80) for the same note, a note-on creates a voice only when
\* its velocity is above 0, and a message of any other type than note-on and
\* note-off changes no state.
C37_OtherMessagesChangeNothing ==
  [][ /\ NoteOnZeroIsNoteOff
      /\ \A command \in MessageCommands, data1 \in MessageData, data2 \in Velocities :
           (MessageType(command) \notin {128, 144}
              /\ HandleMIDIMessage(command, data1, data2))
             => UNCHANGED vars
    ]_vars

\* C37 (amended): a note-on (0x90) with velocity 0 is treated exactly like a
\* note-off (0x80) for the same note, a note-on creates a voice only when its
\* velocity is above 0, and a message that is neither a note-on, a note-off
\* nor a control change (0xB0) changes no state.
C37_NoteOnZeroIsNoteOff ==
  [][ /\ NoteOnZeroIsNoteOff
      /\ \A command \in MessageCommands, data1 \in MessageData, data2 \in Velocities :
           (MessageType(command) \notin {128, 144, 176}
              /\ HandleMIDIMessage(command, data1, data2))
             => UNCHANGED vars
    ]_vars

\* a MIDI note was released by a message while another MIDI note is held
C37_Witness ==
  \E h \in DOMAIN voices, g \in DOMAIN voices :
    /\ voices[h].midiNote # NoMidiNote
    /\ voices[h].ampGain.release > 0
    /\ voices[h].midiNote \notin DOMAIN activeNotes
    /\ voices[g].midiNote \in DOMAIN activeNotes
    /\ voices[g].midiNote # voices[h].midiNote
    /\ InMap(g)

\* C38: a MIDI control change never touches the voice lifecycle: it leaves
\* the active-voice map, activeNotes and every voice, with its pending timers,
\* unchanged for every controller number and value, and a controller number
\* outside the table {1, 7, 71, 72, 73, 74, 91} leaves every parameter and
\* every node parameter unchanged.
C38_ControlChangeLeavesVoices ==
  /\ [](\A ccNumber \in AllMidiNotes \ ControlNumbers, value \in ControlValues :
          handleMIDIControlChange(ControlTargets, ccNumber, value) = ControlTargets)
  /\ [][ \A data \in LifecycleControls :
           HandleMIDIMessage(data[1], data[2], data[3])
             => /\ UNCHANGED <<activeVoices, activeNotes, voices>>
                /\ data[2] \notin ControlNumbers => UNCHANGED vars
       ]_vars

\* controller 74 was moved while one voice is held, its safety timer pending,
\* and another is in its release, its cleanup timer pending
C38_Witness ==
  \E h \in DOMAIN voices, g \in DOMAIN voices :
    /\ InMap(h)
    /\ voices[h].midiNote \in DOMAIN activeNotes
    /\ voices[h].safetyTimeout > 0
    /\ voices[h].filter.params.cutoff # filter.cutoff
    /\ voices[g].cleanupTimeout > 0
    /\ voices[g].filter.params.cutoff # filter.cutoff
====
